---- MODULE Spec2Model ----
(***************************************************************************)
(* State-machine model of the shutter analyzer's detection and calibration *)
(* engine: FrameAnalyzer (frame_analyzer.py) and ShutterEvent /            *)
(* ShutterSpeedCalculator (shutter_calculator.py).                         *)
(*                                                                         *)
(* Brightness samples are integers; every derived float (mean, median,     *)
(* percentile, threshold, weight, duration) is an exact rational <<n, d>>  *)
(* with d > 0 in lowest terms, so equal numbers are equal values.  Python  *)
(* None is the empty tuple, an optional integer k is <<k>>.  A call that   *)
(* raises is recorded by the name of the exception.                        *)
(***************************************************************************)
EXTENDS Integers, Sequences, FiniteSets, TLC

\* ---------------------------------------------------------------- bounds
\* Longest brightness series explored.
MaxLen == 3
\* Brightness samples are drawn from 0..MaxLevel.
MaxLevel == 2
\* Expected event counts are drawn from 1..MaxK (MaxK > MaxLen is reachable).
MaxK == 2

\* ------------------------------------------------------------- rationals
None == <<>>

Abs(x) == IF x < 0 THEN -x ELSE x

RECURSIVE GCD(_, _)
GCD(a, b) == IF b = 0 THEN a ELSE GCD(b, a % b)

\* The rational n/d (d # 0) in lowest terms with a positive denominator.
Rat(n, d) ==
    LET s == IF d < 0 THEN -1 ELSE 1
        g == GCD(Abs(n), Abs(d))
    IN  <<(s * n) \div g, (s * d) \div g>>

R(k) == <<k, 1>>
RAdd(a, b) == Rat(a[1] * b[2] + b[1] * a[2], a[2] * b[2])
RSub(a, b) == Rat(a[1] * b[2] - b[1] * a[2], a[2] * b[2])
RMul(a, b) == Rat(a[1] * b[1], a[2] * b[2])
RDiv(a, b) == Rat(a[1] * b[2], a[2] * b[1])
RLt(a, b) == a[1] * b[2] < b[1] * a[2]
RLe(a, b) == a[1] * b[2] <= b[1] * a[2]
RMin(a, b) == IF RLt(b, a) THEN b ELSE a
RMax(a, b) == IF RLt(a, b) THEN b ELSE a
\* floor of a rational
RFloor(a) == a[1] \div a[2]

\* --------------------------------------------------------- list helpers
RECURSIVE SumSeq(_)
SumSeq(s) == IF s = <<>> THEN 0 ELSE Head(s) + SumSeq(Tail(s))

RECURSIVE Insert(_, _)
Insert(x, s) ==
    IF s = <<>> THEN <<x>>
    ELSE IF x < Head(s) THEN <<x>> \o s
    ELSE <<Head(s)>> \o Insert(x, Tail(s))

\* sorted(values), ascending
RECURSIVE Sorted(_)
Sorted(s) == IF s = <<>> THEN <<>> ELSE Insert(Head(s), Sorted(Tail(s)))

SeqMin(s) == CHOOSE x \in {s[i] : i \in 1..Len(s)} : \A j \in 1..Len(s) : x <= s[j]
SeqMax(s) == CHOOSE x \in {s[i] : i \in 1..Len(s)} : \A j \in 1..Len(s) : x >= s[j]

\* All sequences over S of length lo..hi.
SeqsUpTo(S, lo, hi) == UNION {[1..n -> S] : n \in lo..hi}

\* ------------------------------------------------------------ statistics
\* statistics.mean / np.mean of a non-empty list.
Mean(values) == Rat(SumSeq(values), Len(values))

\* statistics.median / np.median of a non-empty list: the middle element,
\* or the mean of the two middle elements.
Median(values) ==
    LET s == Sorted(values)
        n == Len(values)
    IN  IF n % 2 = 1 THEN R(s[(n + 1) \div 2])
        ELSE Rat(s[n \div 2] + s[n \div 2 + 1], 2)

\* np.percentile(values, q), linear interpolation, for a rational q in
\* [0, 100]: the value at virtual index q/100 * (n - 1) of the sorted list.
\* Outside [0, 100] numpy raises ValueError.
Percentile(values, q) ==
    IF RLt(q, R(0)) \/ RLt(R(100), q) THEN [err |-> "ValueError", val |-> None]
    ELSE
        LET s == Sorted(values)
            n == Len(values)
            pos == RMul(RDiv(q, R(100)), R(n - 1))
            lo == RFloor(pos)
            frac == RSub(pos, R(lo))
            a == s[lo + 1]
            b == IF lo + 2 <= n THEN s[lo + 2] ELSE s[lo + 1]
        IN  [err |-> "none", val |-> RAdd(R(a), RMul(frac, R(b - a)))]

\* -------------------------------------------------------------- segmenter
\* A threshold is a rational <<n, d>>, or, from the z-score search, the
\* number a + c * sqrt(v) kept as <<a, c, v>> (a, c, v rationals, c >= 0,
\* v >= 0), which is irrational in general.
Surd(a, c, v) == <<a, c, v>>
IsSurd(t) == Len(t) = 3

\* x > a + c * sqrt(v) (strict) or x >= a + c * sqrt(v), for rationals:
\* with d = x - a, d > 0 and d^2 > c^2 * v, compared by cross-multiplication.
SurdCompare(x, a, c, v, strict) ==
    LET dn == x[1] * a[2] - a[1] * x[2]
        dd == x[2] * a[2]
        lhs == dn * dn * c[2] * c[2] * v[2]
        rhs == c[1] * c[1] * v[1] * dd * dd
    IN  IF strict THEN dn > 0 /\ lhs > rhs ELSE dn >= 0 /\ lhs >= rhs

\* x > t and x >= t for a rational x and a threshold t.
GtThreshold(x, t) ==
    IF IsSurd(t) THEN SurdCompare(x, t[1], t[2], t[3], TRUE) ELSE RLt(t, x)

GeThreshold(x, t) ==
    IF IsSurd(t) THEN SurdCompare(x, t[1], t[2], t[3], FALSE) ELSE RLe(t, x)

is_shutter_open_inclusive(brightness, threshold) ==
    GeThreshold(R(brightness), threshold)

\* FrameAnalyzer.is_shutter_open: brightness > threshold (strict).
is_shutter_open(brightness, threshold) == GtThreshold(R(brightness), threshold)

\* sum(1 for b in brightness_values if b > threshold)
CountAbove(values, t) ==
    Cardinality({i \in 1..Len(values) : GtThreshold(R(values[i]), t)})

StillOpenValuesDropped(values, brightness) == values

\* "Shutter still open": the frame's brightness joins the open event.
StillOpenValues(values, brightness) == Append(values, brightness)

ClosedEventAtCurrent(start, index, values) ==
    [start |-> start, end |-> index, values |-> values]

\* "Shutter just closed" at loop index `index`: the event ends one frame
\* earlier.
ClosedEvent(start, index, values) ==
    [start |-> start, end |-> index - 1, values |-> values]

FinalEventPastEnd(start, series, values) ==
    [start |-> start, end |-> Len(series), values |-> values]

\* The video ends with the shutter open: the event ends at the last frame.
FinalEvent(start, series, values) ==
    [start |-> start, end |-> Len(series) - 1, values |-> values]

\* ------------------------------------------------------ threshold search
\* An outcome of a call: a value, or the exception it raised.
Ok(v) == [err |-> "none", val |-> v]
Raise(e) == [err |-> e, val |-> None]

\* 1 / 1e-6: the epsilon of the uniform-data tests is 1 / EpsInv.
EpsInv == 1000000

\* n^2 times the population variance of the list: n * sum(x^2) - sum(x)^2.
RECURSIVE SumSq(_)
SumSq(s) == IF s = <<>> THEN 0 ELSE Head(s) * Head(s) + SumSq(Tail(s))

VarNum(values) == Len(values) * SumSq(values) - SumSeq(values) * SumSeq(values)

\* np.std(values) ** 2 (population variance).
Variance(values) == Rat(VarNum(values), Len(values) * Len(values))

\* std < 1e-6, i.e. VarNum * EpsInv^2 < n^2, computed without leaving the
\* 32-bit range: for integers q, m and E > 0, q * E < m iff q <= (m - 1) \div E.
StdBelowEps(values) ==
    VarNum(values) <= ((Len(values) * Len(values) - 1) \div EpsInv) \div EpsInv

\* np.linspace(1.0, 5.0, 40): sample i (0-based) is 1 + 4 * i / 39.
ZSamples == 40
ZScore(i) == Rat((ZSamples - 1) + 4 * i, ZSamples - 1)

\* mean + z * std for the i-th z sample.
ZCandidate(mean, variance, i) == Surd(mean, ZScore(i), variance)

DiffLessOrEqual(diff, best_diff) == best_diff = None \/ diff <= best_diff[1]

\* diff < best_diff, where best_diff is None for float("inf").
DiffLess(diff, best_diff) == best_diff = None \/ diff < best_diff[1]

\* The z sweep from sample i on, carrying <<best_threshold, best_diff>>.
RECURSIVE ZSweep(_, _, _, _, _, _)
ZSweep(values, expected_events_count, mean, variance, i, best) ==
    IF i >= ZSamples THEN best
    ELSE
        LET t == ZCandidate(mean, variance, i)
            diff == Abs(CountAbove(values, t) - expected_events_count)
            next == IF DiffLess(diff, best[2]) THEN <<t, <<diff>>>> ELSE best
        IN  \* (the test only makes TLC compute `next` before it recurses)
            IF next # <<>>
            THEN ZSweep(values, expected_events_count, mean, variance, i + 1, next)
            ELSE best

ZFallbackAtMean(mean) == mean

\* The near-zero-deviation return of the z-score search: mean + 0.1.
ZFallback(mean) == RAdd(mean, Rat(1, 10))

\* FrameAnalyzer.find_threshold_using_zscore
find_threshold_using_zscore(values, expected_events_count) ==
    LET mean == Mean(values)
        variance == Variance(values)
    IN  IF StdBelowEps(values) THEN ZFallback(mean)
        ELSE ZSweep(values, expected_events_count, mean, variance, 0,
                    <<mean, None>>)[1]

\* data_range < 1e-6 for integer samples.
RangeBelowEps(values) == (SeqMax(values) - SeqMin(values)) * EpsInv < 1

\* The percentile position of the uniform-data return of the clustering
\* search: 100 - (expected_events_count / len(values) * 100).
UniformPercentilePosition(values, expected_events_count) ==
    RSub(R(100), RMul(Rat(expected_events_count, Len(values)), R(100)))

\* np.linspace(0.01, 0.2, 20): sample j (0-based) is (j + 1) / 100.
EpsSamples == 20
EpsFactor(j) == Rat(j + 1, 100)

\* The clusters of a labelling: its labels without the noise label -1.
Clusters(labels) == {labels[i] : i \in 1..Len(labels)} \ {-1}

\* np.mean(X[labels == label])
ClusterMean(values, labels, label) ==
    LET members == {i \in 1..Len(values) : labels[i] = label}
        RECURSIVE Total(_)
        Total(S) == IF S = {} THEN 0
                    ELSE LET i == CHOOSE x \in S : TRUE
                         IN  values[i] + Total(S \ {i})
    IN  Rat(Total(members), Cardinality(members))

\* sorted(cluster_means.items(), key=mean): the cluster means ascending (the
\* dict is filled in ascending label order and the sort is stable).
RECURSIVE RInsert(_, _)
RInsert(x, s) ==
    IF s = <<>> THEN <<x>>
    ELSE IF RLt(x, Head(s)) THEN <<x>> \o s
    ELSE <<Head(s)>> \o RInsert(x, Tail(s))

RECURSIVE SortedMeans(_, _, _)
SortedMeans(values, labels, todo) ==
    IF todo = {} THEN <<>>
    ELSE LET hi == CHOOSE x \in todo : \A y \in todo : y <= x
         IN  RInsert(ClusterMean(values, labels, hi),
                     SortedMeans(values, labels, todo \ {hi}))

\* potential_thresholds: the midpoints of adjacent cluster means, each with
\* its |count above - expected| diff.
PotentialThresholds(values, labels, expected_events_count) ==
    LET means == SortedMeans(values, labels, Clusters(labels))
    IN  [i \in 1..(Len(means) - 1) |->
            LET t == RDiv(RAdd(means[i], means[i + 1]), R(2))
            IN  <<t, Abs(CountAbove(values, t) - expected_events_count)>>]

MinByDiffLast(cands) ==
    LET i == CHOOSE x \in 1..Len(cands) :
                 /\ \A y \in 1..Len(cands) : cands[x][2] <= cands[y][2]
                 /\ \A y \in (x + 1)..Len(cands) : cands[y][2] > cands[x][2]
    IN  cands[i]

\* min(potential_thresholds, key=diff): the first candidate of least diff.
MinByDiff(cands) ==
    LET i == CHOOSE x \in 1..Len(cands) :
                 /\ \A y \in 1..Len(cands) : cands[x][2] <= cands[y][2]
                 /\ \A y \in 1..(x - 1) : cands[y][2] > cands[x][2]
    IN  cands[i]

\* One pass of the eps loop on a clustering outcome ("fail" when DBSCAN
\* raised, else the labels): the new <<best_threshold, best_diff>>.
EpsStep(values, expected_events_count, outcome, best) ==
    IF outcome = <<"fail">> THEN best
    ELSE IF Clusters(outcome) = {} THEN best
    ELSE LET cands == PotentialThresholds(values, outcome, expected_events_count)
         IN  IF cands = <<>> THEN best
             ELSE LET c == MinByDiff(cands)
                  IN  IF DiffLess(c[2], best[2]) THEN <<c[1], <<c[2]>>>>
                      ELSE best

\* The eps loop from sample j on; outcomes[j + 1] is what clustering gave
\* for sample j.
RECURSIVE EpsSweep(_, _, _, _, _)
EpsSweep(values, expected_events_count, outcomes, j, best) ==
    IF j >= EpsSamples THEN best
    ELSE
        LET next == EpsStep(values, expected_events_count, outcomes[j + 1], best)
        IN  \* (the test only makes TLC compute `next` before it recurses)
            IF next # <<>> THEN EpsSweep(values, expected_events_count, outcomes,
                                         j + 1, next)
            ELSE best

\* FrameAnalyzer.find_threshold_using_dbscan, given what the clustering
\* library returns for each eps sample.
dbscan_threshold(values, expected_events_count, outcomes) ==
    LET fallback == Percentile(values, R(95))
    IN  IF RangeBelowEps(values)
        THEN Percentile(values,
                 UniformPercentilePosition(values, expected_events_count))
        ELSE Ok(EpsSweep(values, expected_events_count, outcomes, 0,
                         <<fallback.val, None>>)[1])

\* --------------------------------------------- the clustering library
\* sklearn's DBSCAN(eps, min_samples=5).fit(X).labels_ on one-dimensional
\* data.  A point is a core point when at least min_samples points (itself
\* included) lie within eps of it; points are visited in index order and an
\* unlabelled core point starts the next cluster, which takes every
\* unlabelled point reachable through core points; the rest is noise (-1).
MinSamples == 5

Neighbours(values, eps, i) ==
    {j \in 1..Len(values) : RLe(R(Abs(values[j] - values[i])), eps)}

IsCore(values, eps, i) == Cardinality(Neighbours(values, eps, i)) >= MinSamples

RECURSIVE Reach(_, _, _)
Reach(values, eps, S) ==
    LET T == S \cup UNION {Neighbours(values, eps, i) :
                              i \in {x \in S : IsCore(values, eps, x)}}
    IN  IF T = S THEN S ELSE Reach(values, eps, T)

RECURSIVE DbscanInner(_, _, _, _, _)
DbscanInner(values, eps, i, labels, label_num) ==
    IF i > Len(values) THEN labels
    ELSE IF labels[i] # -1 \/ ~IsCore(values, eps, i)
    THEN DbscanInner(values, eps, i + 1, labels, label_num)
    ELSE LET members == Reach(values, eps, {i})
         IN  DbscanInner(values, eps, i + 1,
                 [x \in 1..Len(values) |->
                     IF x \in members /\ labels[x] = -1 THEN label_num
                     ELSE labels[x]],
                 label_num + 1)

DBSCAN(values, eps) ==
    DbscanInner(values, eps, 1, [x \in 1..Len(values) |-> -1], 0)

\* What the library returns over the eps sweep: eps = data_range * eps_factor.
LibraryOutcomes(values) ==
    [j \in 1..EpsSamples |->
        DBSCAN(values, RMul(R(SeqMax(values) - SeqMin(values)), EpsFactor(j - 1)))]

\* FrameAnalyzer.find_threshold_using_dbscan
find_threshold_using_dbscan(values, expected_events_count) ==
    dbscan_threshold(values, expected_events_count, LibraryOutcomes(values))

\* ------------------------------------------------ brightness statistics
PercentileKeys == {10, 25, 75, 90}

\* The 0.1 of the degenerate-threshold rule.
OriginalThresholdAtMedian(baseline, median_brightness, max_brightness, margin_factor) ==
    IF median_brightness = baseline
    THEN RAdd(baseline, RMul(RSub(R(max_brightness), baseline), Rat(1, 10)))
    ELSE median_brightness

OriginalThreshold(baseline, median_brightness, max_brightness, margin_factor) ==
    LET brightness_range == RSub(median_brightness, baseline)
        t == RAdd(baseline, RMul(brightness_range, margin_factor))
    IN  IF t = baseline
        THEN RAdd(baseline, RMul(RSub(R(max_brightness), baseline), Rat(1, 10)))
        ELSE t

\* The method dispatch of analyze_brightness_distribution: the z-score and
\* clustering searches run only when an expected count is given; every
\* other combination takes the percentile-margin branch.
ThresholdFor(values, baseline, margin_factor, method, expected_events_count) ==
    IF method = "zscore" /\ expected_events_count # None
    THEN Ok(find_threshold_using_zscore(values, expected_events_count[1]))
    ELSE IF method = "dbscan" /\ expected_events_count # None
    THEN find_threshold_using_dbscan(values, expected_events_count[1])
    ELSE Ok(OriginalThreshold(baseline, Median(values), SeqMax(values),
                              margin_factor))

FrameBrightnessStatsWithPeak(min_brightness, max_brightness, mean_brightness, median_brightness, percentiles, baseline, threshold) ==
    [min_brightness |-> min_brightness, max_brightness |-> max_brightness,
     mean_brightness |-> mean_brightness, median_brightness |-> median_brightness,
     percentiles |-> percentiles, baseline |-> baseline, threshold |-> threshold,
     peak_brightness |-> R(max_brightness)]

\* The FrameBrightnessStats dataclass; peak_brightness defaults to None.
FrameBrightnessStats(min_brightness, max_brightness, mean_brightness, median_brightness, percentiles, baseline, threshold) ==
    [min_brightness |-> min_brightness, max_brightness |-> max_brightness,
     mean_brightness |-> mean_brightness, median_brightness |-> median_brightness,
     percentiles |-> percentiles, baseline |-> baseline, threshold |-> threshold,
     peak_brightness |-> None]

\* FrameAnalyzer.analyze_brightness_distribution: the stats record, or the
\* exception raised (min() of an empty list, a percentile_threshold that is
\* no key of the percentiles dict, np.percentile out of range).
analyze_brightness_distribution(values, percentile_threshold, margin_factor, method, expected_events_count) ==
    IF values = <<>> THEN Raise("ValueError")
    ELSE IF percentile_threshold \notin PercentileKeys THEN Raise("KeyError")
    ELSE
        LET percentiles == [q \in PercentileKeys |-> Percentile(values, R(q)).val]
            baseline == percentiles[percentile_threshold]
            t == ThresholdFor(values, baseline, margin_factor, method,
                              expected_events_count)
        IN  IF t.err # "none" THEN Raise(t.err)
            ELSE Ok(FrameBrightnessStats(SeqMin(values), SeqMax(values),
                        Mean(values), Median(values), percentiles, baseline,
                        t.val))

\* -------------------------------------------------------- peak estimate
RECURSIVE RSorted(_)
RSorted(s) == IF s = <<>> THEN <<>> ELSE RInsert(Head(s), RSorted(Tail(s)))

\* np.median of a non-empty list of rationals.
RMedian(s) ==
    LET t == RSorted(s)
        n == Len(s)
    IN  IF n % 2 = 1 THEN t[(n + 1) \div 2]
        ELSE RDiv(RAdd(t[n \div 2], t[n \div 2 + 1]), R(2))

PlateauValuesWholeEvent(values, plateau_threshold) == values

\* The plateau frames of an event: brightness >= event_max * plateau_threshold.
PlateauValues(values, plateau_threshold) ==
    SelectSeq(values,
        LAMBDA b : RLe(RMul(R(SeqMax(values)), plateau_threshold), R(b)))

\* plateau_means: the plateau mean of every event (in order) that has at
\* least min_plateau_frames plateau frames.
RECURSIVE PlateauMeans(_, _, _)
PlateauMeans(evs, plateau_threshold, min_plateau_frames) ==
    IF evs = <<>> THEN <<>>
    ELSE
        LET vals == Head(evs).values
            rest == PlateauMeans(Tail(evs), plateau_threshold, min_plateau_frames)
        IN  IF vals = <<>> THEN rest
            ELSE LET plateau == PlateauValues(vals, plateau_threshold)
                 IN  IF Len(plateau) >= min_plateau_frames
                     THEN <<Mean(plateau)>> \o rest
                     ELSE rest

PooledNothing(evs) == <<>>

\* all_event_brightness: the values of all events, pooled in order.
RECURSIVE Pooled(_)
Pooled(evs) == IF evs = <<>> THEN <<>> ELSE Head(evs).values \o Pooled(Tail(evs))

\* FrameAnalyzer.calculate_peak_brightness
calculate_peak_brightness(evs, plateau_threshold, min_plateau_frames) ==
    IF evs = <<>> THEN None
    ELSE
        LET plateau_means == PlateauMeans(evs, plateau_threshold, min_plateau_frames)
        IN  IF plateau_means # <<>> THEN RMedian(plateau_means)
            ELSE IF Pooled(evs) # <<>> THEN Percentile(Pooled(evs), R(95)).val
            ELSE None

\* The defaults of calculate_peak_brightness.
DefaultPlateauThreshold == Rat(9, 10)
DefaultMinPlateauFrames == 10

\* ------------------------------------------------------- shutter events
\* ShutterEvent.__init__
ShutterEvent(start_frame, end_frame, values, baseline_brightness, peak_brightness) ==
    [start_frame |-> start_frame, end_frame |-> end_frame,
     brightness_values |-> values,
     baseline_brightness |-> baseline_brightness,
     peak_brightness |-> peak_brightness]

duration_frames_exclusive(e) == e.end_frame - e.start_frame

\* ShutterEvent.duration_frames
duration_frames(e) == e.end_frame - e.start_frame + 1

ClampAtZeroOnly(w) == RMax(R(0), w)

\* max(0.0, min(1.0, weight))
Clamp01(w) == RMax(R(0), RMin(R(1), w))

FrameWeightFromZero(brightness, baseline, brightness_range) ==
    Clamp01(RDiv(R(brightness), brightness_range))

\* The weight of one frame: 0 at the baseline, 1 at the event's median.
FrameWeight(brightness, baseline, brightness_range) ==
    Clamp01(RDiv(RSub(R(brightness), baseline), brightness_range))

RECURSIVE WeightTotal(_, _, _)
WeightTotal(values, baseline, brightness_range) ==
    IF values = <<>> THEN R(0)
    ELSE RAdd(FrameWeight(Head(values), baseline, brightness_range),
              WeightTotal(Tail(values), baseline, brightness_range))

weighted_duration_frames_against_global_peak(e) ==
    IF e.brightness_values = <<>> THEN R(duration_frames(e))
    ELSE IF e.baseline_brightness = None THEN R(duration_frames(e))
    ELSE
        LET event_peak == IF e.peak_brightness # None THEN e.peak_brightness
                          ELSE Median(e.brightness_values)
        IN  IF RLe(event_peak, e.baseline_brightness) THEN R(duration_frames(e))
            ELSE WeightTotal(e.brightness_values, e.baseline_brightness,
                             RSub(event_peak, e.baseline_brightness))

\* ShutterEvent.weighted_duration_frames
weighted_duration_frames(e) ==
    IF e.brightness_values = <<>> THEN R(duration_frames(e))
    ELSE IF e.baseline_brightness = None THEN R(duration_frames(e))
    ELSE
        LET event_peak == Median(e.brightness_values)
        IN  IF RLe(event_peak, e.baseline_brightness) THEN R(duration_frames(e))
            ELSE WeightTotal(e.brightness_values, e.baseline_brightness,
                             RSub(event_peak, e.baseline_brightness))

FrameWeightsAgainstMax(e) ==
    IF e.brightness_values = <<>> \/ e.baseline_brightness = None THEN <<>>
    ELSE IF RLe(Median(e.brightness_values), e.baseline_brightness) THEN <<>>
    ELSE [i \in 1..Len(e.brightness_values) |->
             FrameWeight(e.brightness_values[i], e.baseline_brightness,
                         RSub(R(SeqMax(e.brightness_values)), e.baseline_brightness))]

\* The weight of every frame, as the loop of weighted_duration_frames
\* computes them; no weight is computed in the fall-back cases.
FrameWeights(e) ==
    IF e.brightness_values = <<>> \/ e.baseline_brightness = None THEN <<>>
    ELSE IF RLe(Median(e.brightness_values), e.baseline_brightness) THEN <<>>
    ELSE [i \in 1..Len(e.brightness_values) |->
             FrameWeight(e.brightness_values[i], e.baseline_brightness,
                         RSub(Median(e.brightness_values), e.baseline_brightness))]

duration_seconds_scaled_up(start_frame, end_frame, fps, recording_fps) ==
    LET frame_count == end_frame - start_frame + 1
    IN  IF recording_fps # None
        THEN RMul(Rat(frame_count, fps), Rat(recording_fps[1], fps))
        ELSE Rat(frame_count, fps)

\* ShutterSpeedCalculator.calculate_duration_seconds (fps, recording_fps > 0)
calculate_duration_seconds(start_frame, end_frame, fps, recording_fps) ==
    LET frame_count == end_frame - start_frame + 1
    IN  IF recording_fps # None
        THEN RMul(Rat(frame_count, fps), Rat(fps, recording_fps[1]))
        ELSE Rat(frame_count, fps)

SpeedFrameCountAlwaysWeighted(e, use_weighted) == weighted_duration_frames(e)

\* The frame count calculate_shutter_speed divides: weighted when asked for
\* and the event has a baseline, else the integer duration.
SpeedFrameCount(e, use_weighted) ==
    IF use_weighted /\ e.baseline_brightness # None
    THEN weighted_duration_frames(e)
    ELSE R(duration_frames(e))

calculate_shutter_speed_at_playback_fps(e, fps, recording_fps, use_weighted) ==
    LET frame_count == SpeedFrameCount(e, use_weighted)
    IN  IF frame_count[1] = 0 THEN Raise("ZeroDivisionError")
        ELSE Ok(RDiv(R(1), RDiv(frame_count, R(fps))))

\* ShutterSpeedCalculator.calculate_shutter_speed: 1.0 / duration, which
\* raises ZeroDivisionError for a zero frame count.
calculate_shutter_speed(e, fps, recording_fps, use_weighted) ==
    LET frame_count == SpeedFrameCount(e, use_weighted)
        effective_fps == IF recording_fps # None THEN recording_fps[1] ELSE fps
        duration == RDiv(frame_count, R(effective_fps))
    IN  IF frame_count[1] = 0 THEN Raise("ZeroDivisionError")
        ELSE Ok(RDiv(R(1), duration))

compare_with_expected_relative_to_measured(measured, expected) ==
    IF measured[1] = 0 THEN Raise("ZeroDivisionError")
    ELSE Ok(RMul(RDiv(RSub(measured, expected), measured), R(100)))

\* ShutterSpeedCalculator.compare_with_expected: the percentage error, or
\* the ZeroDivisionError of a float division by 0.
compare_with_expected(measured, expected) ==
    IF expected[1] = 0 THEN Raise("ZeroDivisionError")
    ELSE Ok(RMul(RDiv(RSub(measured, expected), expected), R(100)))

\* sorted(shutter_events, key=lambda e: e.duration_frames): a stable sort,
\* so an event goes before the already sorted later events of equal duration.
InsertByDuration(e, s) ==
    LET before == SelectSeq(s, LAMBDA t : duration_frames(t) < duration_frames(e))
    IN  before \o <<e>> \o SubSeq(s, Len(before) + 1, Len(s))

SortedByDurationAsGiven(shutter_events) == shutter_events

RECURSIVE SortedByDuration(_)
SortedByDuration(shutter_events) ==
    IF shutter_events = <<>> THEN <<>>
    ELSE InsertByDuration(Head(shutter_events),
                          SortedByDuration(Tail(shutter_events)))

\* result[expected]: the (event, measured) tuples appended under one key, in
\* the order of the zip.
RECURSIVE GroupEntries(_, _, _, _)
GroupEntries(sorted_events, expected_speeds_sorted, fps, expected) ==
    IF sorted_events = <<>> \/ expected_speeds_sorted = <<>> THEN <<>>
    ELSE
        LET event == Head(sorted_events)
            rest == GroupEntries(Tail(sorted_events), Tail(expected_speeds_sorted),
                                 fps, expected)
        IN  IF Head(expected_speeds_sorted) = expected
            THEN <<<<event, calculate_shutter_speed(event, fps, None, TRUE).val>>>>
                 \o rest
            ELSE rest

\* ShutterSpeedCalculator.group_shutter_events: the dict from expected speed
\* to its (event, measured) tuples, or the exception of a speed calculation.
group_shutter_events(shutter_events, expected_speeds, fps) ==
    LET expected_speeds_sorted == RSorted(expected_speeds)
        sorted_events == SortedByDuration(shutter_events)
        min_length == IF Len(sorted_events) < Len(expected_speeds_sorted)
                      THEN Len(sorted_events) ELSE Len(expected_speeds_sorted)
        events_cut == SubSeq(sorted_events, 1, min_length)
        expected_cut == SubSeq(expected_speeds_sorted, 1, min_length)
        failed == {i \in 1..min_length :
                     calculate_shutter_speed(events_cut[i], fps, None, TRUE).err
                         # "none"}
    IN  IF failed # {}
        THEN Raise(calculate_shutter_speed(
                       events_cut[CHOOSE i \in failed : \A j \in failed : i <= j],
                       fps, None, TRUE).err)
        ELSE Ok([expected \in {expected_cut[i] : i \in 1..min_length} |->
                    GroupEntries(events_cut, expected_cut, fps, expected)])

\* ------------------------------------------------------- the video reader
\* An opened cv2.VideoCapture: its position (CAP_PROP_POS_FRAMES), the frame
\* count of its header (CAP_PROP_FRAME_COUNT) and the number of frames it
\* can decode.  video.set(CAP_PROP_POS_FRAMES, p) makes p the position;
\* video.read() returns the frame at the position and advances it, or
\* returns no frame.  Frame i of the video is written <<i>>.
video_set(video, p) == [video EXCEPT !.position = p]

video_read(video) ==
    IF video.position >= 0 /\ video.position < video.readable
    THEN [ret |-> TRUE, frame |-> <<video.position>>,
          video |-> [video EXCEPT !.position = video.position + 1]]
    ELSE [ret |-> FALSE, frame |-> None, video |-> video]

get_frame_at_index_without_restore(video, index) ==
    IF index < 0 \/ index >= video.frame_count
    THEN [result |-> None, video |-> video, current_pos |-> video.position,
          seeks |-> <<>>, reads |-> 0]
    ELSE LET r == video_read(video_set(video, index))
         IN  [result |-> r.frame, video |-> r.video,
              current_pos |-> video.position, seeks |-> <<index>>, reads |-> 1]

\* VideoReader.get_frame_at_index: the frame returned, the video afterwards,
\* and the seeks and reads made.
get_frame_at_index(video, index) ==
    LET current_pos == video.position
        frame_count == video.frame_count
    IN  IF index < 0 \/ index >= frame_count
        THEN [result |-> None, video |-> video, current_pos |-> current_pos,
              seeks |-> <<>>, reads |-> 0]
        ELSE LET r == video_read(video_set(video, index))
                 restored == video_set(r.video, current_pos)
             IN  [result |-> IF ~r.ret THEN None ELSE r.frame,
                  video |-> restored, current_pos |-> current_pos,
                  seeks |-> <<index, current_pos>>, reads |-> 1]

\* ------------------------------------------------- the frame extractor
ClosedPairAtCurrent(start, index) == <<start, index>>

\* frames_smart: events.append((current_event, frame_index - 1))
ClosedPair(start, index) == <<start, index - 1>>

\* The loop of frames_smart.find_shutter_events from frame_index on, and the
\* event still open at the end of the video.
RECURSIVE FramesSmartScan(_, _, _, _, _)
FramesSmartScan(values, t, frame_index, current_event, evs) ==
    IF frame_index >= Len(values)
    THEN IF current_event # None
         THEN Append(evs, <<current_event[1], Len(values) - 1>>)
         ELSE evs
    ELSE
        LET is_open == GtThreshold(R(values[frame_index + 1]), t)
        IN  IF is_open /\ current_event = None
            THEN FramesSmartScan(values, t, frame_index + 1, <<frame_index>>, evs)
            ELSE IF ~is_open /\ current_event # None
            THEN FramesSmartScan(values, t, frame_index + 1, None,
                     Append(evs, ClosedPair(current_event[1], frame_index)))
            ELSE FramesSmartScan(values, t, frame_index + 1, current_event, evs)

\* frames_smart.find_shutter_events: the (start, end) pairs of the events.
frames_smart_find_shutter_events(values, t) ==
    FramesSmartScan(values, t, 0, None, <<>>)

PaddedWindowUnclipped(start, end, total_frames, padding) ==
    (start - padding)..(end + padding)

\* range(max(0, start - padding), min(total_frames, end + padding + 1))
PaddedWindow(start, end, total_frames, padding) ==
    LET lo == IF start - padding > 0 THEN start - padding ELSE 0
        hi == IF end + padding + 1 < total_frames THEN end + padding + 1
              ELSE total_frames
    IN  lo..(hi - 1)

\* sorted(a set of integers)
RECURSIVE SortedSet(_)
SortedSet(S) ==
    IF S = {} THEN <<>>
    ELSE LET lo == CHOOSE x \in S : \A y \in S : x <= y
         IN  <<lo>> \o SortedSet(S \ {lo})

\* frames_smart.get_frames_to_extract
get_frames_to_extract(evs, total_frames, padding) ==
    SortedSet(UNION {PaddedWindow(evs[i][1], evs[i][2], total_frames, padding) :
                        i \in 1..Len(evs)})

\* ------------------------------------------------- consumers of the results
\* What a consumer reports: a message and the number of table rows, files or
\* events it has written after its headers.
Report(message, rows) == [report |-> message, rows |-> rows]

\* The exception of the first event whose speed cannot be calculated, if any.
FirstSpeedError(evs, fps, recording_fps) ==
    LET failed == {i \in 1..Len(evs) :
                     calculate_shutter_speed(evs[i], fps, recording_fps, TRUE).err
                         # "none"}
    IN  IF failed = {} THEN "none"
        ELSE calculate_shutter_speed(
                 evs[CHOOSE i \in failed : \A j \in failed : i <= j],
                 fps, recording_fps, TRUE).err

\* The events that are compared with expected speeds: the shortest
\* min(len(events), len(expected_speeds)).
MatchedEvents(evs, expected_speeds) ==
    LET sorted_events == SortedByDuration(evs)
        min_len == IF Len(evs) < Len(expected_speeds)
                   THEN Len(evs) ELSE Len(expected_speeds)
    IN  SubSeq(sorted_events, 1, min_len)

\* output.format_results_table: two header lines and one line per event (per
\* matched event when expected speeds are given); 1.0 / measured and the
\* comparison never fail for a positive speed and positive expected speeds.
format_results_table(evs, fps, recording_fps, expected_speeds) ==
    LET listed == IF expected_speeds # <<>>
                  THEN MatchedEvents(evs, expected_speeds) ELSE evs
        err == FirstSpeedError(listed, fps, recording_fps)
    IN  IF err # "none" THEN Raise(err)
        ELSE Ok(Report("table", Len(listed)))

\* output.generate_results_markdown: the header lines, one table row per
\* event and, with expected speeds, one comparison row per matched event.
generate_results_markdown(evs, fps, recording_fps, expected_speeds) ==
    LET err == FirstSpeedError(evs, fps, recording_fps)
        compared == IF expected_speeds # <<>>
                    THEN Len(MatchedEvents(evs, expected_speeds)) ELSE 0
    IN  IF err # "none" THEN Raise(err)
        ELSE Ok(Report("markdown", Len(evs) + compared))

\* main.main after analyze_video: no events are reported and the program
\* exits; else the results table, the comparison table when expected speeds
\* are entered, and the markdown report.
main_report(evs, fps, recording_fps, expected_speeds) ==
    IF evs = <<>> THEN Ok(Report("No shutter events detected", 0))
    ELSE
        LET table == format_results_table(evs, fps, recording_fps, <<>>)
            comparison == format_results_table(evs, fps, recording_fps,
                                               expected_speeds)
        IN  IF table.err # "none" THEN table
            ELSE IF expected_speeds # <<>> /\ comparison.err # "none" THEN comparison
            ELSE generate_results_markdown(evs, fps, recording_fps, expected_speeds)

\* verify.verify_events after its own analysis and scan: no events are
\* reported, else the events are stepped through.
verify_events(evs) ==
    IF Len(evs) = 0 THEN Ok(Report("No events detected", 0))
    ELSE Ok(Report("Verification complete", Len(evs)))

\* verify.generate_event_montages: the peak of the stats is formatted with
\* :.2f, a TypeError for None; then one file per event.
generate_event_montages(run_stats, evs) ==
    IF run_stats.peak_brightness = None THEN Raise("TypeError")
    ELSE Ok(Report("montages", Len(evs)))

\* The montage branch of verify.main: files[0] of the generated files.
verify_main_montage(run_stats, evs) ==
    LET files == generate_event_montages(run_stats, evs)
    IN  IF files.err # "none" THEN files
        ELSE IF files.val.rows = 0 THEN Raise("IndexError")
        ELSE files

\* ---------------------------------------------------------- call inputs
\* The thresholds a caller passes to find_shutter_events directly: below
\* every sample and equal to each level.
Thresholds == {R(k) : k \in -1..MaxLevel}

Methods == {"original", "zscore", "dbscan"}
ExpectedCounts == {None} \cup {<<k>> : k \in 1..MaxK}
\* percentile_threshold values passed: the default, one that is no key of
\* the percentiles dict, and one above the median.
PercentileThresholdArgs == {25, 50, 75}
DefaultMarginFactor == Rat(3, 2)
\* baselines given to a ShutterEvent built by hand
BaselineArgs == {None} \cup {R(k) : k \in 0..MaxLevel}
StartFrameArgs == {0, 7}
FpsArgs == {30, 240}
RecordingFpsArgs == {None, <<240>>}
\* the frame rate of the video file in a report of the run
ReportFpsArgs == {30}
\* min_plateau_frames given to a direct call of calculate_peak_brightness
MinPlateauFramesArgs == {1, 2, DefaultMinPlateauFrames}
\* plateau_threshold given to a direct call of calculate_peak_brightness
PlateauThresholdArgs == {Rat(1, 2), DefaultPlateauThreshold}
\* event lists given by hand to get_frames_to_extract: out of order and
\* adjacent, overlapping and past the end of the video, start after end
EventPairLists ==
    {<<<<2, 3>>, <<0, 1>>>>, <<<<1, 2>>, <<2, 5>>>>, <<<<3, 1>>>>}
\* padding given to get_frames_to_extract (2 is the default)
PaddingArgs == {0, 2}
\* peak_brightness attributes a ShutterEvent can be given
PeakArgs == {None} \cup {R(k) : k \in 0..MaxLevel}
\* expected speeds in seconds, as parsed from "1/30, 1/60, ..." or given as 0
\* lists of expected speeds: none, fewer and more than the events, unsorted,
\* with a repeated speed
ExpectedSpeedLists ==
    {<<>>, <<Rat(1, 30)>>, <<Rat(1, 30), Rat(1, 30)>>,
     <<Rat(1, 30), Rat(1, 500), Rat(1, 125)>>}
\* three events given by hand, of 50, 10 and 5 frames, in that order
ScenarioDurations == <<50, 10, 5>>
ScenarioStarts == <<0, 60, 80>>
ScenarioEvents ==
    [i \in 1..3 |->
        ShutterEvent(ScenarioStarts[i], ScenarioStarts[i] + ScenarioDurations[i] - 1,
                     [j \in 1..ScenarioDurations[i] |-> MaxLevel], None, None)]
ExpectedSpeedArgs == {R(0), Rat(1, 30), Rat(1, 240)}

VARIABLES
    brightness_values,          \* the brightness series of the run
    pc,                         \* position of the run
    args,                       \* arguments of the analysis call, or None
    stats,                      \* FrameBrightnessStats of the run, or None
    error,                      \* "none", or the exception that ended the run
    threshold,                  \* threshold handed to find_shutter_events
    frame_index,                \* loop index of the scan (0-based)
    current_event,              \* None, or <<start index>> of the open event
    current_brightness_values,  \* values collected for the open event
    events,                     \* events emitted so far
    shutter_events,             \* the ShutterEvent objects built from events
    calc,                       \* the last speed calculation, or None
    call,                       \* the last call of a consumer of the results, or None
    eps_index,                  \* find_threshold_using_dbscan: the next eps sample
    best,                       \* its <<best_threshold, best_diff>>
    first_of_diff,              \* history: diff -> the first candidate met with it
    outcome,                    \* what the clustering of the last eps sample gave
    position,                   \* the video's CAP_PROP_POS_FRAMES
    frame_count,                \* the video's CAP_PROP_FRAME_COUNT
    readable                    \* the frames the video can actually decode

vars == <<brightness_values, pc, args, stats, error, threshold, frame_index,
          current_event, current_brightness_values, events, shutter_events,
          calc, call, eps_index, best, first_of_diff, outcome,
          position, frame_count, readable>>

sweepVars == <<eps_index, best, first_of_diff, outcome>>
readerVars == <<position, frame_count, readable>>

\* No threshold search is being stepped through and no video is open.
SweepIdle == eps_index = 0 /\ best = None /\ first_of_diff = {} /\ outcome = "none"
ReaderIdle == position = 0 /\ frame_count = 0 /\ readable = 0

scanVars == <<frame_index, current_event, current_brightness_values, events>>

Levels == 0..MaxLevel

\* A recording of one exposure: dark frames at 10, the shutter opening
\* through 80 to a peak of 90 and closing again.
ScenarioSeries == <<10, 10, 10, 80, 85, 90, 85, 80, 10, 10>>

\* A recording of three exposures of different lengths and brightness.
MultiExposureSeries == <<1, 1, 0, 2, 0, 2, 2>>

Init ==
    /\ brightness_values \in SeqsUpTo(Levels, 0, MaxLen)
                               \cup {ScenarioSeries, MultiExposureSeries}
    /\ pc = "start"
    /\ args = None
    /\ stats = None
    /\ error = "none"
    /\ threshold = None
    /\ frame_index = 0
    /\ current_event = None
    /\ current_brightness_values = <<>>
    /\ events = <<>>
    /\ shutter_events = <<>>
    /\ calc = None
    /\ call = None
    /\ SweepIdle
    /\ ReaderIdle

\* find_shutter_events called directly with a threshold of the caller's.
CallFindShutterEvents ==
    /\ pc = "start"
    /\ \E t \in Thresholds : threshold' = t
    /\ pc' = "scan"
    /\ frame_index' = 0
    /\ current_event' = None
    /\ current_brightness_values' = <<>>
    /\ events' = <<>>
    /\ UNCHANGED <<brightness_values, args, stats, error, shutter_events, calc, call>>
    /\ UNCHANGED <<sweepVars, readerVars>>

\* analyze_brightness_distribution, the first pass of
\* analyze_video_and_find_events: the stats record, or the exception.
AnalyzeBrightnessDistribution ==
    /\ pc = "start"
    /\ \E method \in Methods, k \in ExpectedCounts, pt \in PercentileThresholdArgs :
          LET r == analyze_brightness_distribution(brightness_values, pt,
                       DefaultMarginFactor, method, k)
          IN  /\ args' = [method |-> method, expected_events_count |-> k,
                          percentile_threshold |-> pt,
                          margin_factor |-> DefaultMarginFactor]
              /\ IF r.err = "none"
                 THEN stats' = r.val /\ error' = "none" /\ pc' = "analyzed"
                 ELSE stats' = None /\ error' = r.err /\ pc' = "raised"
    /\ UNCHANGED <<brightness_values, threshold, scanVars, shutter_events, calc, call>>
    /\ UNCHANGED <<sweepVars, readerVars>>

\* The second pass of analyze_video_and_find_events: find_shutter_events
\* with the threshold of the stats.
FindEventsWithStatsThreshold ==
    /\ pc = "analyzed"
    /\ threshold' = stats.threshold
    /\ pc' = "scan"
    /\ frame_index' = 0
    /\ current_event' = None
    /\ current_brightness_values' = <<>>
    /\ events' = <<>>
    /\ UNCHANGED <<brightness_values, args, stats, error, shutter_events, calc, call>>
    /\ UNCHANGED <<sweepVars, readerVars>>

\* One iteration of the for loop of find_shutter_events.
ScanFrame ==
    /\ pc = "scan"
    /\ frame_index < Len(brightness_values)
    /\ LET brightness == brightness_values[frame_index + 1]
           is_open == is_shutter_open(brightness, threshold)
       IN  IF is_open /\ current_event = None THEN
               \* shutter just opened
               /\ current_event' = <<frame_index>>
               /\ current_brightness_values' = <<brightness>>
               /\ events' = events
           ELSE IF is_open /\ current_event # None THEN
               \* shutter still open
               /\ current_brightness_values' =
                      StillOpenValues(current_brightness_values, brightness)
               /\ UNCHANGED <<current_event, events>>
           ELSE IF ~is_open /\ current_event # None THEN
               \* shutter just closed
               /\ events' = Append(events,
                      ClosedEvent(current_event[1], frame_index,
                                  current_brightness_values))
               /\ current_event' = None
               /\ current_brightness_values' = <<>>
           ELSE
               UNCHANGED <<current_event, current_brightness_values, events>>
    /\ frame_index' = frame_index + 1
    /\ UNCHANGED <<brightness_values, pc, args, stats, error, threshold,
                   shutter_events, calc, call>>
    /\ UNCHANGED <<sweepVars, readerVars>>

\* After the loop: an event still open is emitted, ending at the last frame.
FinishScan ==
    /\ pc = "scan"
    /\ frame_index = Len(brightness_values)
    /\ events' =
           IF current_event # None
           THEN Append(events,
                    FinalEvent(current_event[1], brightness_values,
                               current_brightness_values))
           ELSE events
    /\ pc' = "scanned"
    /\ UNCHANGED <<brightness_values, args, stats, error, threshold, frame_index,
                   current_event, current_brightness_values, shutter_events, calc, call>>
    /\ UNCHANGED <<sweepVars, readerVars>>

\* The end of analyze_video_and_find_events: the peak brightness of the
\* events is stored in the stats, which are returned with the events.
StorePeakBrightness ==
    /\ pc = "scanned"
    /\ stats # None
    /\ stats' = [stats EXCEPT !.peak_brightness =
                    calculate_peak_brightness(events, DefaultPlateauThreshold,
                                              DefaultMinPlateauFrames)]
    /\ pc' = "returned"
    /\ UNCHANGED <<brightness_values, args, error, threshold, scanVars,
                   shutter_events, calc, call>>
    /\ UNCHANGED <<sweepVars, readerVars>>

\* main.analyze_video: every raw event becomes a ShutterEvent carrying the
\* baseline and the peak of the stats.
RECURSIVE ToShutterEvents(_, _, _)
ToShutterEvents(evs, baseline, peak) ==
    IF evs = <<>> THEN <<>>
    ELSE <<ShutterEvent(Head(evs).start, Head(evs).end, Head(evs).values,
                        baseline, peak)>>
         \o ToShutterEvents(Tail(evs), baseline, peak)

ConvertRawEvents ==
    /\ pc = "returned"
    /\ shutter_events' =
           ToShutterEvents(events, stats.baseline, stats.peak_brightness)
    /\ pc' = "converted"
    /\ UNCHANGED <<brightness_values, args, stats, error, threshold, scanVars,
                   calc, call>>
    /\ UNCHANGED <<sweepVars, readerVars>>

\* A ShutterEvent built by hand, as the tests build them: the frames of the
\* series from some start frame on, with any baseline or none.
NewShutterEvent ==
    /\ pc = "start"
    /\ \E s \in StartFrameArgs, baseline \in BaselineArgs :
          shutter_events' =
              <<ShutterEvent(s, s + Len(brightness_values) - 1,
                             brightness_values, baseline, None)>>
    /\ pc' = "built"
    /\ UNCHANGED <<brightness_values, args, stats, error, threshold, scanVars,
                   calc, call>>
    /\ UNCHANGED <<sweepVars, readerVars>>

\* The speed and the duration in seconds of one ShutterEvent.  The report
\* formatters pass use_weighted = True; a hand-built event is also measured
\* unweighted.
CalculateSpeed ==
    /\ pc \in {"converted", "built"}
    /\ \E i \in 1..Len(shutter_events), fps \in FpsArgs,
          recording_fps \in RecordingFpsArgs, use_weighted \in BOOLEAN :
          /\ use_weighted \/ stats = None
          /\ LET e == shutter_events[i]
             IN  calc' = [event |-> e, fps |-> fps,
                          recording_fps |-> recording_fps,
                          use_weighted |-> use_weighted,
                          weighted_duration_frames |-> weighted_duration_frames(e),
                          weights |-> FrameWeights(e),
                          duration_seconds |->
                              calculate_duration_seconds(e.start_frame,
                                  e.end_frame, fps, recording_fps),
                          shutter_speed |->
                              calculate_shutter_speed(e, fps, recording_fps,
                                                      use_weighted)]
    /\ pc' = "calculated"
    /\ UNCHANGED <<brightness_values, args, stats, error, threshold, scanVars,
                   shutter_events, call>>
    /\ UNCHANGED <<sweepVars, readerVars>>

\* compare_with_expected on a calculated speed.  The report formatters pass
\* measured_seconds = 1.0 / measured; the test script passes the result of
\* calculate_shutter_speed(event, fps) of an event without baseline as it is.
CompareWithExpected ==
    /\ pc = "calculated"
    /\ calc.shutter_speed.err = "none"
    /\ calc.use_weighted
    /\ \E expected \in ExpectedSpeedArgs, through \in {"format_results_table", "test"} :
          /\ through = "test" =>
                 (calc.event.baseline_brightness = None /\ calc.recording_fps = None)
          /\ LET measured == IF through = "test" THEN calc.shutter_speed.val
                             ELSE RDiv(R(1), calc.shutter_speed.val)
             IN  call' = [op |-> "compare_with_expected", through |-> through,
                          measured |-> measured, expected |-> expected,
                          result |-> compare_with_expected(measured, expected)]
    /\ pc' = "compared"
    /\ UNCHANGED <<brightness_values, args, stats, error, threshold, scanVars,
                   shutter_events, calc>>
    /\ UNCHANGED <<sweepVars, readerVars>>

\* The test script's list of ShutterEvent(start, end, brightness), without
\* baseline, from the events of a direct find_shutter_events call.
WrapRawEvents ==
    /\ pc = "scanned"
    /\ stats = None
    /\ shutter_events' = ToShutterEvents(events, None, None)
    /\ pc' = "converted"
    /\ UNCHANGED <<brightness_values, args, stats, error, threshold, scanVars,
                   calc, call>>
    /\ UNCHANGED <<sweepVars, readerVars>>

\* A list of ShutterEvents given by hand, longest first.
NewScenarioEvents ==
    /\ pc = "start"
    /\ shutter_events' = ScenarioEvents
    /\ pc' = "converted"
    /\ UNCHANGED <<brightness_values, args, stats, error, threshold, scanVars,
                   calc, call>>
    /\ UNCHANGED <<sweepVars, readerVars>>

\* The command line validates --events before it analyses, and passes no
\* percentile_threshold.
CliArgs ==
    /\ args.percentile_threshold = 25
    /\ args.method \in {"zscore", "dbscan"} => args.expected_events_count # None

\* group_shutter_events on the ShutterEvents of the run.
GroupShutterEvents ==
    /\ pc = "converted"
    /\ stats # None => CliArgs
    /\ \E expected_speeds \in ExpectedSpeedLists, fps \in FpsArgs :
          call' = [op |-> "group_shutter_events",
                   shutter_events |-> shutter_events,
                   expected_speeds |-> expected_speeds, fps |-> fps,
                   result |-> group_shutter_events(shutter_events,
                                                   expected_speeds, fps)]
    /\ pc' = "grouped"
    /\ UNCHANGED <<brightness_values, args, stats, error, threshold, scanVars,
                   shutter_events, calc>>
    /\ UNCHANGED <<sweepVars, readerVars>>

\* frames_smart.find_shutter_events called on the series with the
\* threshold of a direct call.
FramesSmartFindShutterEvents ==
    /\ pc = "scanned"
    /\ stats = None
    /\ call' = [op |-> "frames_smart.find_shutter_events",
                result |-> frames_smart_find_shutter_events(brightness_values,
                                                            threshold)]
    /\ pc' = "called"
    /\ UNCHANGED <<brightness_values, args, stats, error, threshold, scanVars,
                   shutter_events, calc, sweepVars, readerVars>>

\* get_frames_to_extract on the events just found, or on a list given by
\* hand, for a video of as many frames as the series or one more.
GetFramesToExtract ==
    /\ pc = "called"
    /\ call.op = "frames_smart.find_shutter_events"
    /\ \E evs \in {call.result} \cup EventPairLists,
          total_frames \in {Len(brightness_values), Len(brightness_values) + 1},
          padding \in PaddingArgs :
          call' = [op |-> "get_frames_to_extract", events |-> evs,
                   total_frames |-> total_frames, padding |-> padding,
                   result |-> get_frames_to_extract(evs, total_frames, padding)]
    /\ UNCHANGED <<brightness_values, pc, args, stats, error, threshold, scanVars,
                   shutter_events, calc, sweepVars, readerVars>>

\* calculate_peak_brightness called directly on the events of a direct
\* find_shutter_events call.
CallCalculatePeakBrightness ==
    /\ pc = "scanned"
    /\ stats = None
    /\ \E plateau_threshold \in PlateauThresholdArgs,
          min_plateau_frames \in MinPlateauFramesArgs :
          call' = [op |-> "calculate_peak_brightness",
                   plateau_threshold |-> plateau_threshold,
                   min_plateau_frames |-> min_plateau_frames,
                   result |-> calculate_peak_brightness(events,
                                  plateau_threshold, min_plateau_frames)]
    /\ pc' = "called"
    /\ UNCHANGED <<brightness_values, args, stats, error, threshold, scanVars,
                   shutter_events, calc>>
    /\ UNCHANGED <<sweepVars, readerVars>>

\* main.main from the events of analyze_video on.
MainReport ==
    /\ pc = "converted"
    /\ stats # None
    /\ CliArgs
    /\ \E fps \in ReportFpsArgs, recording_fps \in RecordingFpsArgs,
          expected_speeds \in ExpectedSpeedLists :
          call' = [op |-> "main", fps |-> fps, recording_fps |-> recording_fps,
                   expected_speeds |-> expected_speeds,
                   result |-> main_report(shutter_events, fps, recording_fps,
                                          expected_speeds)]
    /\ pc' = "reported"
    /\ UNCHANGED <<brightness_values, args, stats, error, threshold, scanVars,
                   shutter_events, calc>>
    /\ UNCHANGED <<sweepVars, readerVars>>

\* One of the two result formatters called on the ShutterEvents of the run.
FormatResults ==
    /\ pc = "converted"
    /\ stats # None => CliArgs
    /\ \E formatter \in {"format_results_table", "generate_results_markdown"},
          fps \in ReportFpsArgs, recording_fps \in RecordingFpsArgs,
          expected_speeds \in ExpectedSpeedLists :
          call' = [op |-> formatter, fps |-> fps, recording_fps |-> recording_fps,
                   expected_speeds |-> expected_speeds,
                   result |->
                       IF formatter = "format_results_table"
                       THEN format_results_table(shutter_events, fps,
                                                 recording_fps, expected_speeds)
                       ELSE generate_results_markdown(shutter_events, fps,
                                                 recording_fps, expected_speeds)]
    /\ pc' = "reported"
    /\ UNCHANGED <<brightness_values, args, stats, error, threshold, scanVars,
                   shutter_events, calc>>
    /\ UNCHANGED <<sweepVars, readerVars>>

\* The interactive mode of the verification tool: its own analysis (with an
\* expected count entered for zscore and dbscan) and scan, then the events.
VerifyEvents ==
    /\ pc = "scanned"
    /\ stats # None
    /\ CliArgs
    /\ call' = [op |-> "verify_events", result |-> verify_events(events)]
    /\ pc' = "stepped"
    /\ UNCHANGED <<brightness_values, args, stats, error, threshold, scanVars,
                   shutter_events, calc>>
    /\ UNCHANGED <<sweepVars, readerVars>>

\* The montage mode of the verification tool, which passes --method and
\* --events on as they are.
MontageMode ==
    /\ pc = "returned"
    /\ args.percentile_threshold = 25
    /\ call' = [op |-> "generate_event_montages",
                result |-> verify_main_montage(stats, events)]
    /\ pc' = "verified"
    /\ UNCHANGED <<brightness_values, args, stats, error, threshold, scanVars,
                   shutter_events, calc>>
    /\ UNCHANGED <<sweepVars, readerVars>>

Next ==
    \/ CallFindShutterEvents
    \/ AnalyzeBrightnessDistribution
    \/ FindEventsWithStatsThreshold
    \/ ScanFrame
    \/ FinishScan
    \/ StorePeakBrightness
    \/ ConvertRawEvents
    \/ NewShutterEvent
    \/ CalculateSpeed
    \/ CompareWithExpected
    \/ CallCalculatePeakBrightness
    \/ WrapRawEvents
    \/ NewScenarioEvents
    \/ GroupShutterEvents
    \/ MainReport
    \/ FormatResults
    \/ VerifyEvents
    \/ MontageMode
    \/ FramesSmartFindShutterEvents
    \/ GetFramesToExtract

Spec == Init /\ [][Next]_vars

\* ------------------------------ the clustering search, one eps at a time
\* find_threshold_using_dbscan stepped through its eps loop, with a
\* clustering library that may return any labelling, or raise, at each eps.
SweepSeries == {<<0, 1, 1, 2>>, <<2, 0, 1>>, <<1, 1>>}

\* The labellings a clustering can return: noise (-1) or one of three
\* clusters for every frame, the clusters numbered from 0 in the order of
\* their first frame.
LabelArgs(values) ==
    {labels \in [1..Len(values) -> -1..2] :
        \A i \in 1..Len(values) : \A c \in 0..(labels[i] - 1) :
            \E j \in 1..(i - 1) : labels[j] = c}

\* History: the candidates met so far, the first one of each diff, as
\* <<diff, threshold>> pairs.
RECURSIVE RecordFirst(_, _)
RecordFirst(seen, cands) ==
    IF cands = <<>> THEN seen
    ELSE LET c == Head(cands)
         IN  RecordFirst(IF \E p \in seen : p[1] = c[2] THEN seen
                         ELSE seen \cup {<<c[2], c[1]>>},
                         Tail(cands))

InitSweep ==
    /\ brightness_values \in SweepSeries
    /\ pc = "sweep"
    /\ args \in {[method |-> "dbscan", expected_events_count |-> <<k>>,
                  percentile_threshold |-> 25,
                  margin_factor |-> DefaultMarginFactor] : k \in 1..MaxK}
    /\ stats = None
    /\ error = "none"
    /\ threshold = None
    /\ frame_index = 0
    /\ current_event = None
    /\ current_brightness_values = <<>>
    /\ events = <<>>
    /\ shutter_events = <<>>
    /\ calc = None
    /\ call = None
    /\ eps_index = 0
    /\ best = <<Percentile(brightness_values, R(95)).val, None>>
    /\ first_of_diff = {}
    /\ outcome = "none"
    /\ ReaderIdle

\* data_range < 1e-6: the percentile of the expected share is returned, or
\* np.percentile raises, before any clustering.
UniformData ==
    /\ pc = "sweep"
    /\ eps_index = 0
    /\ RangeBelowEps(brightness_values)
    /\ LET r == Percentile(brightness_values,
                    UniformPercentilePosition(brightness_values,
                                              args.expected_events_count[1]))
       IN  IF r.err = "none"
           THEN threshold' = r.val /\ error' = "none" /\ pc' = "swept"
           ELSE threshold' = None /\ error' = r.err /\ pc' = "raised"
    /\ UNCHANGED <<brightness_values, args, stats, frame_index, current_event,
                   current_brightness_values, events, shutter_events, calc, call,
                   sweepVars, readerVars>>

\* DBSCAN raises for this eps: the bare except skips to the next eps.
ClusteringFails ==
    /\ pc = "sweep"
    /\ ~RangeBelowEps(brightness_values)
    /\ eps_index < EpsSamples
    /\ best' = EpsStep(brightness_values, args.expected_events_count[1],
                       <<"fail">>, best)
    /\ eps_index' = eps_index + 1
    /\ outcome' = "failed"
    /\ UNCHANGED <<brightness_values, pc, args, stats, error, threshold, scanVars,
                   shutter_events, calc, call, first_of_diff, readerVars>>

\* DBSCAN returns labels for this eps.
ClusteringReturns ==
    /\ pc = "sweep"
    /\ ~RangeBelowEps(brightness_values)
    /\ eps_index < EpsSamples
    /\ \E labels \in LabelArgs(brightness_values) :
          LET k == args.expected_events_count[1]
              cands == PotentialThresholds(brightness_values, labels, k)
          IN  /\ best' = EpsStep(brightness_values, k, labels, best)
              /\ first_of_diff' = RecordFirst(first_of_diff, cands)
              /\ outcome' = IF Clusters(labels) = {} THEN "no clusters"
                            ELSE IF cands = <<>> THEN "one cluster"
                            ELSE "candidates"
    /\ eps_index' = eps_index + 1
    /\ UNCHANGED <<brightness_values, pc, args, stats, error, threshold, scanVars,
                   shutter_events, calc, call, readerVars>>

\* return best_threshold
ReturnBestThreshold ==
    /\ pc = "sweep"
    /\ ~RangeBelowEps(brightness_values)
    /\ eps_index = EpsSamples
    /\ threshold' = best[1]
    /\ pc' = "swept"
    /\ UNCHANGED <<brightness_values, args, stats, error, scanVars,
                   shutter_events, calc, call, sweepVars, readerVars>>

NextSweep ==
    \/ UniformData
    \/ ClusteringFails
    \/ ClusteringReturns
    \/ ReturnBestThreshold

SpecSweep == InitSweep /\ [][NextSweep]_vars

\* ------------------------------------------------ reading an opened video
\* The opened video as one value.
Video == [position |-> position, frame_count |-> frame_count, readable |-> readable]

\* A video of up to MaxLen frames by its header, of which some prefix can
\* be decoded, opened at its first frame.
InitReader ==
    /\ frame_count \in 0..MaxLen
    /\ readable \in 0..frame_count
    /\ position = 0
    /\ pc = "opened"
    /\ brightness_values = <<>>
    /\ args = None
    /\ stats = None
    /\ error = "none"
    /\ threshold = None
    /\ frame_index = 0
    /\ current_event = None
    /\ current_brightness_values = <<>>
    /\ events = <<>>
    /\ shutter_events = <<>>
    /\ calc = None
    /\ call = None
    /\ SweepIdle

\* One iteration of VideoReader.read_frames: video.read().
ReadFrame ==
    /\ pc = "opened"
    /\ LET r == video_read(Video)
       IN  /\ position' = r.video.position
           /\ call' = [op |-> "read_frames", index |-> position,
                       result |-> r.frame, current_pos |-> position,
                       seeks |-> <<>>, reads |-> 1]
    /\ UNCHANGED <<brightness_values, pc, args, stats, error, threshold, scanVars,
                   shutter_events, calc, sweepVars, frame_count, readable>>

\* VideoReader.get_frame_at_index with any index.
GetFrameAtIndex ==
    /\ pc = "opened"
    /\ \E index \in (0 - 1)..(frame_count + 1) :
          LET r == get_frame_at_index(Video, index)
          IN  /\ position' = r.video.position
              /\ call' = [op |-> "get_frame_at_index", index |-> index,
                          result |-> r.result, current_pos |-> r.current_pos,
                          seeks |-> r.seeks, reads |-> r.reads]
    /\ UNCHANGED <<brightness_values, pc, args, stats, error, threshold, scanVars,
                   shutter_events, calc, sweepVars, frame_count, readable>>

NextReader ==
    \/ ReadFrame
    \/ GetFrameAtIndex

SpecReader == InitReader /\ [][NextReader]_vars



\* ------------------------------------------------------ segmenter claims
\* Frame i (0-based) lies inside some emitted event.
InSomeEvent(i) == \E k \in 1..Len(events) : events[k].start <= i /\ i <= events[k].end

FrameIndices == 0..(Len(brightness_values) - 1)

\* brightness_values[i] > threshold.
Above(i) == GtThreshold(R(brightness_values[i + 1]), threshold)

\* C1: when find_shutter_events has returned, a frame index lies inside some
\* returned [start, end] interval if and only if its brightness is strictly
\* above the threshold; a series with no value above the threshold gives the
\* empty list.
C1_EventsAreExactlyFramesAbove ==
    pc = "scanned" =>
        /\ \A i \in FrameIndices : InSomeEvent(i) <=> Above(i)
        /\ (\A i \in FrameIndices : ~Above(i)) => events = <<>>

\* A finished scan with an event, a frame exactly at the threshold and
\* another frame below it.
C1_Witness ==
    /\ pc = "scanned"
    /\ events # <<>>
    /\ \E i \in FrameIndices : R(brightness_values[i + 1]) = threshold
    /\ \E i \in FrameIndices : ~Above(i) /\ R(brightness_values[i + 1]) # threshold

\* A finished scan of a non-empty series that never crosses the threshold.
C1_WitnessEmpty ==
    pc = "scanned" /\ brightness_values # <<>> /\ events = <<>>

\* C2: the emitted events are in strictly ascending start order, do not
\* overlap, and consecutive events are separated by at least one frame that
\* is not above the threshold (next.start >= prev.end + 2).
C2_OrderedAndSeparated ==
    \A k \in 1..(Len(events) - 1) :
        /\ events[k].start < events[k + 1].start
        /\ events[k + 1].start >= events[k].end + 2
        /\ \E i \in (events[k].end + 1)..(events[k + 1].start - 1) : ~Above(i)

C2_Witness ==
    /\ pc = "scanned"
    /\ Len(events) >= 2
    /\ events[2].start = events[1].end + 2

\* values is series[start..end] in order.
IsSlice(e) ==
    /\ Len(e.values) = e.end - e.start + 1
    /\ \A j \in 1..Len(e.values) : e.values[j] = brightness_values[e.start + j]

\* C3: at every step of the scan every event emitted so far satisfies
\* 0 <= start <= end <= len(series) - 1, len(values) = end - start + 1, and
\* values is exactly series[start..end].
C3_EventBoundsAndValues ==
    \A k \in 1..Len(events) :
        /\ 0 <= events[k].start
        /\ events[k].start <= events[k].end
        /\ events[k].end <= Len(brightness_values) - 1
        /\ IsSlice(events[k])

\* During the scan, before the loop has been left, with a multi-frame event
\* emitted on a falling edge.
C3_Witness ==
    /\ pc = "scan"
    /\ \E k \in 1..Len(events) : events[k].end > events[k].start

OPEN == current_event # None
CLOSED == current_event = None

\* C4: the segmenter is a two-state machine that starts CLOSED; a frame above
\* the threshold seen in CLOSED opens an event at the current index, a frame
\* not above it seen in OPEN closes the event at the previous index, the other
\* two cases change neither the state nor the emitted list, and a scan ending
\* in OPEN emits the in-progress event with end = last index; events already
\* emitted are never dropped.
C4_Step ==
    /\ (pc # "scan" /\ pc' = "scan") => CLOSED' /\ events' = <<>> /\ frame_index' = 0
    /\ (pc = "scan" /\ pc' = "scan") =>
          /\ frame_index' = frame_index + 1
          /\ (CLOSED /\ Above(frame_index)) =>
                 current_event' = <<frame_index>> /\ events' = events
          /\ (OPEN /\ ~Above(frame_index)) =>
                 /\ CLOSED'
                 /\ Len(events') = Len(events) + 1
                 /\ SubSeq(events', 1, Len(events)) = events
                 /\ events'[Len(events')].start = current_event[1]
                 /\ events'[Len(events')].end = frame_index - 1
          /\ (OPEN /\ Above(frame_index)) =>
                 current_event' = current_event /\ events' = events
          /\ (CLOSED /\ ~Above(frame_index)) => CLOSED' /\ events' = events
    /\ (pc = "scan" /\ pc' = "scanned") =>
          /\ frame_index = Len(brightness_values)
          /\ OPEN =>
                 /\ Len(events') = Len(events) + 1
                 /\ SubSeq(events', 1, Len(events)) = events
                 /\ events'[Len(events')].start = current_event[1]
                 /\ events'[Len(events')].end = Len(brightness_values) - 1
          /\ CLOSED => events' = events

C4_TwoStateMachine == [][C4_Step]_vars

\* A scan that closed one event on a falling edge and ended in OPEN, the
\* in-progress event emitted at the last index.
C4_Witness ==
    /\ pc = "scanned"
    /\ OPEN
    /\ Len(events) >= 2
    /\ events[Len(events)].end = Len(brightness_values) - 1

\* ------------------------------------------------ threshold-search claims
\* The analysis call was made with these arguments on a non-empty series and
\* a percentile_threshold that is a key of the percentiles dict.
AnalysedWith(method) ==
    /\ args # None
    /\ args.method = method
    /\ args.percentile_threshold \in PercentileKeys
    /\ brightness_values # <<>>

AllEqual(values) == \A i, j \in 1..Len(values) : values[i] = values[j]

\* C5: with method zscore or dbscan and no expected event count,
\* analyze_brightness_distribution fails with a configuration error and
\* computes no threshold.
C5_FailsFastWithoutExpectedCount ==
    (/\ args # None
     /\ args.method \in {"zscore", "dbscan"}
     /\ args.expected_events_count = None)
    => (stats = None /\ error # "none")

\* C6: on a non-empty series of equal values the clustering search returns,
\* without raising, a threshold strictly greater than the constant value,
\* for every positive expected event count.
C6_UniformClusteringAboveConstant ==
    (/\ AnalysedWith("dbscan")
     /\ args.expected_events_count # None
     /\ AllEqual(brightness_values))
    => /\ error = "none"
       /\ stats # None
       /\ RLt(R(brightness_values[1]), stats.threshold)

\* C7: on a non-empty series whose standard deviation is below 1e-6 the
\* z-score search returns mean + 0.1 (a plain number, not a sweep
\* candidate), which is above every value of the series, so the segmenter
\* then yields no event.
C7_UniformZScoreFallback ==
    (/\ AnalysedWith("zscore")
     /\ args.expected_events_count # None
     /\ StdBelowEps(brightness_values))
    => /\ error = "none"
       /\ stats # None
       /\ ~IsSurd(stats.threshold)
       /\ stats.threshold[1] * 10 * Len(brightness_values) =
              stats.threshold[2] * (10 * SumSeq(brightness_values)
                                    + Len(brightness_values))
       /\ \A i \in 1..Len(brightness_values) :
              brightness_values[i] * stats.threshold[2] < stats.threshold[1]
       /\ events = <<>>

\* The pipeline has run to its end on a constant series of several frames
\* with the z-score method.
C7_Witness ==
    /\ pc = "returned"
    /\ AnalysedWith("zscore")
    /\ args.expected_events_count # None
    /\ Len(brightness_values) >= 2
    /\ AllEqual(brightness_values)
    /\ brightness_values[1] > 0
    /\ events = <<>>

\* ----------------------------------------------------- calculator claims
\* The event of the last calculation and what was computed for it.
CalcEvent == calc.event
CalcValues == calc.event.brightness_values
CalcDuration == calc.event.end_frame - calc.event.start_frame + 1

\* Every frame of the event is at least the event's own median: twice the
\* frame is at least the sum of the two middle values of the sorted list.
AllAtLeastMedian(values) ==
    LET s == Sorted(values)
        n == Len(values)
        lo == s[(n + 1) \div 2]
        hi == s[n \div 2 + 1]
    IN  \A i \in 1..n : 2 * values[i] >= lo + hi

\* The weighting is not one of its fall-back cases: the event has values, a
\* baseline, and a median strictly above the baseline.
WeightingApplies(e) ==
    /\ e.brightness_values # <<>>
    /\ e.baseline_brightness # None
    /\ LET s == Sorted(e.brightness_values)
           n == Len(e.brightness_values)
           b == e.baseline_brightness
       IN  (s[(n + 1) \div 2] + s[n \div 2 + 1]) * b[2] > 2 * b[1]

\* C8: for every event whose brightness_values has length end - start + 1,
\* with any baseline or none, 0 <= weighted_duration_frames <= duration_frames.
C8_WeightedWithinDuration ==
    (calc # None /\ Len(CalcValues) = CalcDuration) =>
        LET w == calc.weighted_duration_frames
        IN  /\ w[2] > 0
            /\ 0 <= w[1]
            /\ w[1] <= CalcDuration * w[2]

\* An event weighted strictly between 0 and its duration.
C8_Witness ==
    /\ calc # None
    /\ Len(CalcValues) = CalcDuration
    /\ WeightingApplies(CalcEvent)
    /\ 0 < calc.weighted_duration_frames[1]
    /\ calc.weighted_duration_frames[1] <
           CalcDuration * calc.weighted_duration_frames[2]

\* C9 as stated: weighted_duration_frames equals duration_frames if and only
\* if every frame of the event is at least the event's median.
C9_EqualIffAllAtLeastMedian ==
    (calc # None /\ CalcValues # <<>> /\ Len(CalcValues) = CalcDuration) =>
        (calc.weighted_duration_frames = R(CalcDuration)
            <=> AllAtLeastMedian(CalcValues))

\* C9 (amended): if every frame of the event is at least the event's median,
\* weighted_duration_frames equals duration_frames; the converse holds when
\* the weighting applies (the event has a baseline and its median is
\* strictly above it).  In the fall-back cases (no baseline, or median <=
\* baseline) the two are equal whatever the frames are.
C9_EqualIffAllAtLeastMedianWhenWeighted ==
    (calc # None /\ CalcValues # <<>> /\ Len(CalcValues) = CalcDuration) =>
        /\ AllAtLeastMedian(CalcValues) =>
               calc.weighted_duration_frames = R(CalcDuration)
        /\ WeightingApplies(CalcEvent) =>
               (calc.weighted_duration_frames = R(CalcDuration)
                   <=> AllAtLeastMedian(CalcValues))
        /\ ~WeightingApplies(CalcEvent) =>
               calc.weighted_duration_frames = R(CalcDuration)

\* A weighted event with a frame above its median, all frames at least the
\* median and above the baseline: weighted equals the duration.
C9_Witness ==
    /\ calc # None
    /\ WeightingApplies(CalcEvent)
    /\ AllAtLeastMedian(CalcValues)
    /\ ~AllEqual(CalcValues)
    /\ calc.weighted_duration_frames = R(CalcDuration)

\* The product of two rationals is 1.
ProductIsOne(a, b) == a[1] * b[1] = a[2] * b[2]

\* C10 as stated: for every event, fps and optional recording_fps the
\* shutter speed times the duration in seconds is 1.
C10_SpeedIsReciprocalOfDuration ==
    (calc # None /\ calc.use_weighted /\ CalcDuration >= 1) =>
        /\ calc.shutter_speed.err = "none"
        /\ ProductIsOne(calc.shutter_speed.val, calc.duration_seconds)

\* C10 (amended): for every event of at least one frame, fps and optional
\* recording_fps, calculate_shutter_speed is the exact reciprocal of
\* calculate_duration_seconds when it uses the integer frame count
\* (use_weighted false, or an event without baseline) or when the weighted
\* duration equals the integer one; otherwise the weighted duration is
\* shorter and the product of the two exceeds 1.
C10_SpeedIsReciprocalOfUnweightedDuration ==
    (calc # None /\ CalcDuration >= 1 /\ Len(CalcValues) = CalcDuration) =>
        LET integer_count == \/ ~calc.use_weighted
                             \/ CalcEvent.baseline_brightness = None
                             \/ calc.weighted_duration_frames = R(CalcDuration)
        IN  /\ calc.shutter_speed.err = "none"
            /\ integer_count =>
                   ProductIsOne(calc.shutter_speed.val, calc.duration_seconds)
            /\ ~integer_count =>
                   calc.shutter_speed.val[1] * calc.duration_seconds[1] >
                       calc.shutter_speed.val[2] * calc.duration_seconds[2]

\* A slow-motion calculation (recording_fps given) on the integer count of
\* an event of several frames.
C10_Witness ==
    /\ calc # None
    /\ CalcDuration >= 2
    /\ calc.recording_fps # None
    /\ calc.recording_fps[1] # calc.fps
    /\ CalcEvent.baseline_brightness = None
    /\ calc.shutter_speed.err = "none"

\* The frame count the last calculation selected and its effective rate.
CalcFrameCount ==
    IF calc.use_weighted /\ CalcEvent.baseline_brightness # None
    THEN calc.weighted_duration_frames
    ELSE R(CalcDuration)

CalcEffectiveFps ==
    IF calc.recording_fps # None THEN calc.recording_fps[1] ELSE calc.fps

C12_SpeedIsExposureSeconds ==
    (calc # None /\ calc.shutter_speed.err = "none") =>
        calc.shutter_speed.val = RDiv(CalcFrameCount, R(CalcEffectiveFps))

\* The last call was compare_with_expected.
Compared == call # None /\ call.op = "compare_with_expected"

\* C13: for every expected > 0, compare_with_expected(measured, expected) is
\* ((measured - expected) / expected) * 100: 0 when measured = expected, 100
\* when measured = 2 * expected, and positive exactly when measured >
\* expected.
C13_VariationFormula ==
    (Compared /\ call.expected[1] > 0) =>
        LET v == call.result.val
            m == call.measured
            e == call.expected
        IN  /\ call.result.err = "none"
            /\ RMul(v, e) = RMul(R(100), RSub(m, e))
            /\ m = e => v = R(0)
            /\ m = RMul(R(2), e) => v = R(100)
            /\ v[1] > 0 <=> RLt(e, m)

\* The report compared an exposure of 1/15 s with an expected 1/30 s: +100.
C13_Witness ==
    /\ Compared
    /\ call.through = "format_results_table"
    /\ call.expected = Rat(1, 30)
    /\ call.measured = Rat(1, 15)
    /\ call.result = Ok(R(100))

\* The last call was group_shutter_events; its arguments and result.
Grouped == call # None /\ call.op = "group_shutter_events"
GroupedMin ==
    IF Len(call.shutter_events) < Len(call.expected_speeds)
    THEN Len(call.shutter_events) ELSE Len(call.expected_speeds)

\* The position of the p-th given event among the events in ascending
\* duration, equal durations in the order given.
DurationRank(p) ==
    LET evs == call.shutter_events
    IN  1 + Cardinality({q \in 1..Len(evs) :
                \/ duration_frames(evs[q]) < duration_frames(evs[p])
                \/ duration_frames(evs[q]) = duration_frames(evs[p]) /\ q < p})

\* The i-th smallest of the expected speeds.
NthSmallestExpected(i) ==
    LET exp == call.expected_speeds
    IN  CHOOSE v \in {exp[q] : q \in 1..Len(exp)} :
            /\ Cardinality({q \in 1..Len(exp) : RLt(exp[q], v)}) < i
            /\ i <= Cardinality({q \in 1..Len(exp) : RLe(exp[q], v)})

\* The (key, position) places of the result that hold a given event.
PlacesOf(event) ==
    {kj \in UNION {{<<k, j>> : j \in 1..Len(call.result.val[k])} :
                       k \in DOMAIN call.result.val} :
        call.result.val[kj[1]][kj[2]][1] = event}

GroupedEntryCount ==
    Cardinality(UNION {{<<k, j>> : j \in 1..Len(call.result.val[k])} :
                          k \in DOMAIN call.result.val})

\* C14: for events of at least one frame each, group_shutter_events returns
\* without error; the i-th shortest event (ascending duration_frames, ties
\* in the order given) is listed, with its measured speed, under the i-th
\* smallest expected speed for every i up to min(len(events), len(expected));
\* the surplus events are listed nowhere, no event is listed twice and the
\* result has min(len(events), len(expected)) entries.  Durations [50,10,5]
\* with expected [1/30,1/500,1/125] pair as 5-1/500, 10-1/125, 50-1/30.
C14_GroupPairsShortestWithFastest ==
    (Grouped /\ \A p \in 1..Len(call.shutter_events) :
                    duration_frames(call.shutter_events[p]) >= 1) =>
        LET evs == call.shutter_events
        IN  /\ call.result.err = "none"
            /\ GroupedEntryCount = GroupedMin
            /\ \A p \in 1..Len(evs) :
                   IF DurationRank(p) <= GroupedMin
                   THEN PlacesOf(evs[p]) =
                            {<<NthSmallestExpected(DurationRank(p)),
                               Cardinality({q \in 1..Len(evs) :
                                   /\ DurationRank(q) <= DurationRank(p)
                                   /\ NthSmallestExpected(DurationRank(q)) =
                                          NthSmallestExpected(DurationRank(p))})>>}
                   ELSE PlacesOf(evs[p]) = {}
            /\ \A k \in DOMAIN call.result.val :
                   \A j \in 1..Len(call.result.val[k]) :
                       Ok(call.result.val[k][j][2]) =
                           calculate_shutter_speed(call.result.val[k][j][1],
                                                   call.fps, None, TRUE)
            /\ (evs = ScenarioEvents
                    /\ call.expected_speeds = <<Rat(1, 30), Rat(1, 500), Rat(1, 125)>>)
                   => /\ call.result.val[Rat(1, 500)][1][1] = ScenarioEvents[3]
                      /\ call.result.val[Rat(1, 125)][1][1] = ScenarioEvents[2]
                      /\ call.result.val[Rat(1, 30)][1][1] = ScenarioEvents[1]

\* The events of 50, 10 and 5 frames grouped with [1/30, 1/500, 1/125].
C14_Witness ==
    /\ Grouped
    /\ call.shutter_events = ScenarioEvents
    /\ call.expected_speeds = <<Rat(1, 30), Rat(1, 500), Rat(1, 125)>>
    /\ call.result.err = "none"
    /\ DOMAIN call.result.val = {Rat(1, 30), Rat(1, 500), Rat(1, 125)}

\* Two events of equal duration grouped under one repeated expected speed,
\* and a third expected speed without an event.
C14_WitnessTies ==
    /\ Grouped
    /\ Len(call.shutter_events) = 2
    /\ call.expected_speeds = <<Rat(1, 30), Rat(1, 30)>>
    /\ call.result.err = "none"
    /\ Len(call.result.val[Rat(1, 30)]) = 2

\* ------------------------------------------------------- pipeline claims
\* The scan of the run has finished.
ScanDone == pc \notin {"start", "analyzed", "raised", "scan"}

\* The run analysed the scenario series with the percentile-margin method
\* and its defaults (percentile_threshold 25, margin_factor 1.5).
ScenarioRun ==
    /\ brightness_values = ScenarioSeries
    /\ args # None
    /\ args.method = "original"
    /\ args.percentile_threshold = 25
    /\ args.margin_factor = Rat(3, 2)

\* C15: on [10,10,10,80,85,90,85,80,10,10] with the percentile-margin
\* method (percentile_threshold 25, margin_factor 1.5) the baseline is 10,
\* the threshold is baseline + (median - baseline) * 1.5, the scan yields
\* exactly the event (3, 7) of 5 frames, and its weighted duration with
\* baseline 10 is strictly below 5, the two frames of 80 being below the
\* event's median 85.
C15_ScenarioEndToEnd ==
    ScenarioRun =>
        /\ stats # None
        /\ stats.baseline = R(10)
        /\ stats.threshold =
               RAdd(R(10), RMul(RSub(stats.median_brightness, R(10)), Rat(3, 2)))
        /\ ScanDone =>
               events = <<[start |-> 3, end |-> 7,
                           values |-> <<80, 85, 90, 85, 80>>]>>
        /\ calc # None =>
               /\ CalcEvent.start_frame = 3 /\ CalcEvent.end_frame = 7
               /\ CalcEvent.baseline_brightness = R(10)
               /\ CalcDuration = 5
               /\ Median(CalcValues) = R(85)
               /\ RLt(calc.weighted_duration_frames, R(5))
               /\ RLt(R(4), calc.weighted_duration_frames)

\* The scenario run has come to the speed of its one event.
C15_Witness ==
    /\ ScenarioRun
    /\ calc # None
    /\ Len(events) = 1
    /\ RLt(calc.weighted_duration_frames, R(5))

\* C16 as stated: with the percentile-margin method, on a series with any
\* variation (max > min), the threshold of the stats differs from the
\* baseline.
C16_ThresholdSeparatesFromBaseline ==
    (/\ AnalysedWith("original")
     /\ stats # None
     /\ SeqMax(brightness_values) > SeqMin(brightness_values))
    => stats.threshold # stats.baseline

\* C17 as stated: for every integer percentile_threshold in 0..100 and every
\* non-empty series the analysis completes without error, with the
\* percentile_threshold-th percentile of the series as the baseline.
C17_AnyPercentileThresholdCompletes ==
    (/\ args # None
     /\ args.method = "original"
     /\ args.percentile_threshold \in 0..100
     /\ brightness_values # <<>>)
    => /\ error = "none"
       /\ stats # None
       /\ stats.baseline =
              Percentile(brightness_values, R(args.percentile_threshold)).val

\* A finite number: a fraction with a positive denominator.
IsNumber(x) == x # None /\ Len(x) = 2 /\ x[2] > 0

\* The run has stored the peak brightness in its stats.
PeakStored ==
    stats # None /\ pc \notin {"start", "analyzed", "raised", "scan", "scanned", "stepped"}

PeakCalled == call # None /\ call.op = "calculate_peak_brightness"

\* C18: calculate_peak_brightness returns None only when the event list is
\* empty; for every non-empty list of events of the segmenter it returns a
\* finite number, in the run (default arguments) and in a direct call.
C18_PeakNoneOnlyWithoutEvents ==
    /\ PeakStored =>
           /\ stats.peak_brightness = None <=> events = <<>>
           /\ events # <<>> => IsNumber(stats.peak_brightness)
    /\ PeakCalled =>
           /\ call.result = None <=> events = <<>>
           /\ events # <<>> => IsNumber(call.result)

\* A direct call in which no event has enough plateau frames, so that the
\* peak is the 95th percentile of the pooled event values.
C18_Witness ==
    /\ PeakCalled
    /\ Len(events) >= 2
    /\ PlateauMeans(events, call.plateau_threshold, call.min_plateau_frames) = <<>>
    /\ IsNumber(call.result)

\* A direct call in which an event has enough plateau frames.
C18_WitnessPlateau ==
    /\ PeakCalled
    /\ PlateauMeans(events, call.plateau_threshold, call.min_plateau_frames) # <<>>
    /\ call.min_plateau_frames >= 2
    /\ IsNumber(call.result)

\* The last call was a consumer of the results that was given no event.
ConsumedNoEvents ==
    /\ call # None
    /\ \/ call.op \in {"main", "format_results_table", "generate_results_markdown"}
             /\ shutter_events = <<>>
       \/ call.op \in {"verify_events", "generate_event_montages"}
             /\ events = <<>>

\* C19 as stated: no consumer raises on a run without events: the command
\* line reports that no events were detected, the formatters give a table of
\* headers only, and both modes of the verification tool finish.
C19_ConsumersHandleZeroEvents ==
    ConsumedNoEvents =>
        /\ call.result.err = "none"
        /\ call.result.val.rows = 0
        /\ call.op = "main" => call.result.val.report = "No shutter events detected"

\* C20: in one run the stages are threshold, events, peak.  The stats record
\* is created by the analysis with peak_brightness = None and its threshold
\* is the one the scan uses; peak_brightness stays None until the scan has
\* finished; the only step that changes the record is the one after the
\* scan, which sets peak_brightness to the peak of the finished events and
\* leaves every other field; once the peak is stored the record never
\* changes again.
C20_Step ==
    /\ (stats = None /\ stats' # None) =>
           pc = "start" /\ pc' = "analyzed" /\ stats'.peak_brightness = None
    /\ (stats' # None /\ pc' \in {"analyzed", "scan", "scanned", "stepped"}) =>
           stats'.peak_brightness = None
    /\ (stats' # None /\ pc' = "scan") => threshold' = stats'.threshold
    /\ (stats # None /\ stats' # stats) =>
           /\ pc = "scanned" /\ pc' = "returned"
           /\ stats' = [stats EXCEPT !.peak_brightness = stats'.peak_brightness]
    /\ (stats # None /\ pc = "scanned" /\ pc' = "returned") =>
           /\ events' = events
           /\ stats'.peak_brightness =
                  calculate_peak_brightness(events, DefaultPlateauThreshold,
                                            DefaultMinPlateauFrames)
    /\ PeakStored => (stats' = stats /\ events' = events /\ PeakStored')

C20_StagesInOrder == [][C20_Step]_vars

\* A run that has stored a peak for its events.
C20_Witness ==
    /\ pc = "returned"
    /\ events # <<>>
    /\ IsNumber(stats.peak_brightness)
    /\ stats.threshold = threshold

\* ------------------------------------------------------ weighting claims
\* The sum of a list of rationals.
RECURSIVE RSum(_)
RSum(s) == IF s = <<>> THEN R(0) ELSE RAdd(Head(s), RSum(Tail(s)))

\* The frames of the last calculation that were given weight exactly 1.
FullWeightFrames == {i \in 1..Len(calc.weights) : calc.weights[i] = R(1)}

\* C21: for every event whose median brightness is strictly above the
\* baseline, every per-frame weight lies in [0, 1], every frame at least as
\* bright as the event's median has weight exactly 1, and at least half of
\* the n frames (ceil(n/2)) have weight exactly 1; the weighted duration is
\* the sum of these weights.
C21_WeightsClampedAndHalfFull ==
    (calc # None /\ WeightingApplies(CalcEvent)) =>
        /\ Len(calc.weights) = Len(CalcValues)
        /\ \A i \in 1..Len(CalcValues) :
               /\ RLe(R(0), calc.weights[i])
               /\ RLe(calc.weights[i], R(1))
               /\ RLe(Median(CalcValues), R(CalcValues[i])) =>
                      calc.weights[i] = R(1)
        /\ 2 * Cardinality(FullWeightFrames) >= Len(CalcValues)
        /\ RSum(calc.weights) = calc.weighted_duration_frames

\* An event of three frames of which the two at the median weigh 1 and the
\* darker one weighs strictly between 0 and 1.
C21_Witness ==
    /\ calc # None
    /\ WeightingApplies(CalcEvent)
    /\ Len(CalcValues) = 3
    /\ Cardinality(FullWeightFrames) = 2
    /\ \E i \in 1..3 : RLt(R(0), calc.weights[i]) /\ RLt(calc.weights[i], R(1))

\* C22: weighted_duration_frames equals duration_frames (and no weight is
\* computed) whenever the event has no baseline, has no brightness values,
\* or its median is <= the baseline; and calculate_shutter_speed divides by
\* the integer duration_frames whenever use_weighted is false or the event
\* carries no baseline.
C22_FallBackToIntegerDuration ==
    calc # None =>
        /\ (\/ CalcEvent.baseline_brightness = None
            \/ CalcValues = <<>>
            \/ RLe(Median(CalcValues), CalcEvent.baseline_brightness))
           => (calc.weighted_duration_frames = R(CalcDuration)
                  /\ calc.weights = <<>>)
        /\ (~calc.use_weighted \/ CalcEvent.baseline_brightness = None)
           => IF CalcDuration = 0
              THEN calc.shutter_speed = Raise("ZeroDivisionError")
              ELSE calc.shutter_speed = Ok(Rat(CalcEffectiveFps, CalcDuration))

\* An unweighted calculation on an event with a baseline whose weighted
\* duration is shorter than its integer duration.
C22_Witness ==
    /\ calc # None
    /\ ~calc.use_weighted
    /\ WeightingApplies(CalcEvent)
    /\ RLt(calc.weighted_duration_frames, R(CalcDuration))
    /\ calc.shutter_speed = Ok(Rat(CalcEffectiveFps, CalcDuration))

\* A weighted calculation that fell back: the median of the event is not
\* above its baseline.
C22_WitnessMedianAtBaseline ==
    /\ calc # None
    /\ calc.use_weighted
    /\ CalcEvent.baseline_brightness # None
    /\ CalcValues # <<>>
    /\ ~AllEqual(CalcValues)
    /\ RLe(Median(CalcValues), CalcEvent.baseline_brightness)
    /\ calc.weighted_duration_frames = R(CalcDuration)

\* The event of the last calculation with another peak_brightness attribute.
CalcEventWithPeak(peak) == [CalcEvent EXCEPT !.peak_brightness = peak]

CallPlateau(e) ==
    SelectSeq(e.values,
        LAMBDA b : \A j \in 1..Len(e.values) :
            b * call.plateau_threshold[2] >= e.values[j] * call.plateau_threshold[1])

\* An event qualifies when its plateau has at least min_plateau_frames frames.
Qualifies(e) == Len(CallPlateau(e)) >= call.min_plateau_frames

QualifyingEvents == SelectSeq(events, Qualifies)

CallPlateauMean(e) == Rat(SumSeq(CallPlateau(e)), Len(CallPlateau(e)))

\* The i-th smallest of the plateau means of the qualifying events.
NthPlateauMean(i) ==
    LET q == QualifyingEvents
        m == [k \in 1..Len(q) |-> CallPlateauMean(q[k])]
    IN  CHOOSE v \in {m[k] : k \in 1..Len(q)} :
            /\ Cardinality({k \in 1..Len(q) : RLt(m[k], v)}) < i
            /\ Cardinality({k \in 1..Len(q) : RLe(m[k], v)}) >= i

\* The frames of the series above the threshold of the scan: the pooled
\* brightness values of all events.
FramesAboveThreshold == SelectSeq(brightness_values, LAMBDA b : RLt(threshold, R(b)))

C24_WitnessMiddle ==
    /\ PeakCalled
    /\ Len(QualifyingEvents) = 3
    /\ call.result = NthPlateauMean(2)
    /\ RMul(R(3), call.result)
           # RAdd(NthPlateauMean(1), RAdd(NthPlateauMean(2), NthPlateauMean(3)))

\* No event qualifies and the pooled 95th percentile is returned.
C24_WitnessFallback ==
    /\ PeakCalled
    /\ Len(events) = 3
    /\ QualifyingEvents = <<>>
    /\ IsNumber(call.result)

\* The z-score search has just run with an expected count on a series whose
\* standard deviation is at least 1e-6.
ZScoreSearched ==
    /\ pc = "analyzed"
    /\ AnalysedWith("zscore")
    /\ args.expected_events_count # None
    /\ ~StdBelowEps(brightness_values)

\* mean + z * std for the i-th (0-based) of the 40 evenly spaced samples of
\* [1.0, 5.0], and the distance of its count of frames above from k.
ZSample(i) ==
    <<Rat(SumSeq(brightness_values), Len(brightness_values)),
      Rat(39 + 4 * i, 39),
      Variance(brightness_values)>>

ZSampleDiff(i) ==
    LET above == Cardinality({f \in 1..Len(brightness_values) :
                     GtThreshold(R(brightness_values[f]), ZSample(i))})
        k == args.expected_events_count[1]
    IN  IF above >= k THEN above - k ELSE k - above

\* The sample the claim names: closest count, lowest z on ties.
ZChosen ==
    CHOOSE i \in 0..39 :
        /\ \A j \in 0..39 : ZSampleDiff(i) <= ZSampleDiff(j)
        /\ \A j \in 0..(i - 1) : ZSampleDiff(j) > ZSampleDiff(i)

\* C25: with a standard deviation of at least 1e-6 the z-score search
\* returns mean + z*std for the z among the 40 samples of [1.0, 5.0] whose
\* count of frames above the candidate is closest to k, the lowest such z on
\* ties; the threshold is at least mean + std and above the mean.
C25_ZScoreClosestLowestZ ==
    ZScoreSearched =>
        /\ error = "none"
        /\ stats.threshold = ZSample(ZChosen)
        /\ stats.threshold[1] = Mean(brightness_values)
        /\ stats.threshold[3] = Variance(brightness_values)
        /\ RLe(R(1), stats.threshold[2])
        /\ ~GeThreshold(Mean(brightness_values), stats.threshold)

\* The closest count is not reached at the first sample: the search moved
\* past z = 1.0.
C25_Witness ==
    /\ ZScoreSearched
    /\ ZChosen > 0
    /\ ZSampleDiff(ZChosen) < ZSampleDiff(0)

\* Two samples tie for the closest count and the lower z is returned.
C25_WitnessTie ==
    /\ ZScoreSearched
    /\ ZChosen = 0
    /\ \E j \in 1..39 : ZSampleDiff(j) = ZSampleDiff(0)
                        /\ ZSample(j) # ZSample(0)
                        /\ CountAbove(brightness_values, ZSample(j))
                               # CountAbove(brightness_values, ZSample(0))

\* The clustering search is in, or has left, its eps loop.
Sweeping == pc \in {"sweep", "swept"} /\ ~RangeBelowEps(brightness_values)

\* The candidate the claim names among those met so far: the smallest diff,
\* and of that diff the first one met (lowest eps, then first in its list);
\* the 95th percentile of the series when no candidate was met.
SweepChoice ==
    IF first_of_diff = {}
    THEN Percentile(brightness_values, R(95)).val
    ELSE (CHOOSE p \in first_of_diff : \A q \in first_of_diff : p[1] <= q[1])[2]

\* C26: whatever the clustering returns or raises at each of the 20 eps
\* samples, the search keeps, and in the end returns, the candidate of the
\* smallest |count above - k| among all met so far, the first one met on
\* ties, and the 95th percentile of the series while none was met; a failed
\* or candidate-less eps changes nothing and the loop runs all 20 samples.
C26_BestCandidateOverAllEps ==
    Sweeping =>
        /\ eps_index \in 0..20
        /\ best[1] = SweepChoice
        /\ (best[2] = None) <=> (first_of_diff = {})
        /\ pc = "swept" => (eps_index = 20 /\ threshold = SweepChoice)

\* The search returned a candidate after a sweep that met candidates of
\* two different diffs and ended on an eps that gave none.
C26_Witness ==
    /\ pc = "swept"
    /\ Cardinality(first_of_diff) = 2
    /\ outcome \in {"failed", "no clusters", "one cluster"}
    /\ threshold # Percentile(brightness_values, R(95)).val

\* A failed eps in the middle of a sweep that already has a best candidate.
C26_WitnessFailed ==
    /\ pc = "sweep"
    /\ outcome = "failed"
    /\ eps_index \in 1..19
    /\ first_of_diff # {}

\* No eps gave a candidate: the 95th percentile is returned.
C26_WitnessFallback ==
    /\ pc = "swept"
    /\ ~RangeBelowEps(brightness_values)
    /\ first_of_diff = {}
    /\ outcome = "one cluster"

\* The event of the last calculation is one the segmenter produced.
CalcEventFromSegmenter ==
    /\ calc # None
    /\ \E i \in 1..Len(events) :
          /\ events[i].start = CalcEvent.start_frame
          /\ events[i].end = CalcEvent.end_frame
          /\ events[i].values = CalcValues

\* The event of the last calculation with another baseline.
CalcEventWithBaseline(baseline) == [CalcEvent EXCEPT !.baseline_brightness = baseline]

\* C27: for every event of the segmenter, with any baseline or none and any
\* fps and recording_fps, weighted_duration_frames and duration_frames are
\* at least 1, so the frame count calculate_shutter_speed divides by is at
\* least 1 and no ZeroDivisionError is raised.
C27_FrameCountAtLeastOne ==
    (pc = "calculated" /\ CalcEventFromSegmenter) =>
        /\ RLe(R(1), calc.weighted_duration_frames)
        /\ CalcDuration >= 1
        /\ RLe(R(1), CalcFrameCount)
        /\ calc.shutter_speed.err = "none"
        /\ calc.shutter_speed.val[1] > 0
        /\ \A baseline \in BaselineArgs :
               LET e == CalcEventWithBaseline(baseline)
                   speed == calculate_shutter_speed(e, calc.fps, calc.recording_fps,
                                                    calc.use_weighted)
               IN  /\ RLe(R(1), weighted_duration_frames(e))
                   /\ speed.err = "none"
                   /\ speed.val[1] > 0

\* A weighted calculation on a segmenter event whose frames are not all at
\* full weight under the baseline of the run, and are under another one.
C27_Witness ==
    /\ pc = "calculated"
    /\ CalcEventFromSegmenter
    /\ calc.use_weighted
    /\ WeightingApplies(CalcEvent)
    /\ RLt(calc.weighted_duration_frames, R(CalcDuration))
    /\ \E baseline \in BaselineArgs :
           /\ baseline # CalcEvent.baseline_brightness
           /\ weighted_duration_frames(CalcEventWithBaseline(baseline))
                  = R(CalcDuration)

\* ------------------------------------------------ frame-extractor claims
FramesSmartCalled == call # None /\ call.op = "frames_smart.find_shutter_events"

\* C28: the two segmenters agree: for the series and threshold of the scan,
\* the (start, end) pairs frames_smart.find_shutter_events returns are, in
\* the same order, the start and end of the events of
\* FrameAnalyzer.find_shutter_events.
C28_SegmentersAgree ==
    FramesSmartCalled =>
        /\ Len(call.result) = Len(events)
        /\ \A i \in 1..Len(events) :
               call.result[i] = <<events[i].start, events[i].end>>

\* Two events, the second one still open at the end of the video.
C28_Witness ==
    /\ FramesSmartCalled
    /\ Len(events) >= 2
    /\ call.result[1][2] < call.result[2][1]
    /\ call.result[Len(events)][2] = Len(brightness_values) - 1

Extracted == call # None /\ call.op = "get_frames_to_extract"

InSomeWindow(i) ==
    \E k \in 1..Len(call.events) :
        /\ call.events[k][1] - call.padding <= i
        /\ i <= call.events[k][2] + call.padding

\* C30: get_frames_to_extract returns a strictly ascending list of indices
\* within [0, total_frames), and a frame index of the video is in the list
\* if and only if it lies within padding of some event; no index outside
\* the video is in it.
C30_PaddedWindowsMerged ==
    Extracted =>
        LET r == call.result
        IN  /\ \A p \in 1..(Len(r) - 1) : r[p] < r[p + 1]
            /\ \A p \in 1..Len(r) : 0 <= r[p] /\ r[p] < call.total_frames
            /\ \A i \in (0 - 3)..(call.total_frames + 3) :
                   (\E p \in 1..Len(r) : r[p] = i)
                       <=> (0 <= i /\ i < call.total_frames /\ InSomeWindow(i))

\* Two events of the segmenter whose padded windows overlap and are cut at
\* both ends of the video.
C30_Witness ==
    /\ Extracted
    /\ Len(call.events) = 2
    /\ Len(events) = 2
    /\ \A k \in 1..2 : call.events[k] = <<events[k].start, events[k].end>>
    /\ call.padding = 2
    /\ InSomeWindow(0 - 1)
    /\ InSomeWindow(call.total_frames)
    /\ \E i \in 0..(call.total_frames - 1) :
           /\ call.events[1][1] - 2 <= i /\ i <= call.events[1][2] + 2
           /\ call.events[2][1] - 2 <= i /\ i <= call.events[2][2] + 2
    /\ Len(call.result) = call.total_frames

\* A list given by hand, out of order, is returned in ascending order.
C30_WitnessUnordered ==
    /\ Extracted
    /\ Len(call.events) = 2
    /\ call.events[2][1] < call.events[1][1]
    /\ call.padding = 0
    /\ Len(call.result) >= 3

\* ------------------------------------------------------- reader claims
FrameFetched == call # None /\ call.op = "get_frame_at_index"

\* C29: get_frame_at_index leaves the position of the video where it was:
\* for an index below 0 or at or past the frame count it returns None
\* without a seek or a read; for any other index it seeks to the index,
\* reads once and seeks back to the position it found, whether the read
\* gave a frame or not.
C29_PositionRestored ==
    FrameFetched =>
        /\ position = call.current_pos
        /\ IF call.index < 0 \/ call.index >= frame_count
           THEN call.result = None /\ call.seeks = <<>> /\ call.reads = 0
           ELSE /\ call.seeks = <<call.index, call.current_pos>>
                /\ call.reads = 1
                /\ call.result \in {None, <<call.index>>}
                /\ (call.result = None) <=> (call.index >= readable)

\* A frame other than the current one fetched from a video that had been
\* read up to some later frame.
C29_Witness ==
    /\ FrameFetched
    /\ position > 0
    /\ call.index # position
    /\ call.result = <<call.index>>

\* An index within the frame count whose frame cannot be decoded: None is
\* returned and the position is back where it was.
C29_WitnessReadFailed ==
    /\ FrameFetched
    /\ position > 0
    /\ call.index >= 0 /\ call.index < frame_count
    /\ call.reads = 1
    /\ call.result = None

====
